---- MODULE Spec2Model ----
(***************************************************************************)
(* AAF (AVTP Audio Format) mapping module of Open-AVB:                     *)
(* lib/avtp_pipeline/map_aaf_audio/openavb_map_aaf_audio.c                 *)
(*                                                                         *)
(* One mapping session (pvt_data_t + media_q_pub_map_aaf_audio_info_t),    *)
(* its two circular queues, the media queue it reads or fills, and the     *)
(* callbacks the AVTP engine invokes on it.  Bytes are naturals 0..255,    *)
(* buffers are sequences of bytes (offset o of the C buffer is index o+1). *)
(***************************************************************************)
EXTENDS Integers, Sequences, FiniteSets, TLC

VARIABLES
    pub,        \* media_q_pub_map_aaf_audio_info_t (pMediaQ->pPubMapInfo)
    pvt,        \* pvt_data_t without its two circular queues
    temporalRedundantQueue,  \* pvt_data_t.temporalRedundantQueue
    trStatsEntryTypeQueue,   \* pvt_data_t.trStatsEntryTypeQueue
    mediaQ,     \* the media queue: queued items in FIFO order and the head item
    phase,      \* which callbacks have run: "created", "gen", "talker", "listener"
    last,       \* observation of the last callback: its inputs and its results
    hist        \* observation of the whole run: packets produced, bytes fed, counters

vars == <<pub, pvt, temporalRedundantQueue, trStatsEntryTypeQueue, mediaQ, phase, last, hist>>

(***************************************************************************)
(* Bounds of the model.                                                    *)
(***************************************************************************)
MaxTx == 3          \* tx calls per run
MaxPush == 3        \* items the interface module pushes per run
MaxItems == 2       \* items queued in the media queue at once
MaxStream == 5      \* packets of an undamaged stream a listener is told of per run
MaxRx == 4          \* packets of a stream with damaged packets, per run
MaxBad == 2         \* packets per run that reach the listener damaged
MaxLost == 2        \* packets one rx_lost call reports lost
ShortFrameLen == 10 \* the length of a frame cut off inside the header
MaxCap == 3         \* capacity of a circular queue exercised on its own
MaxSamples == 2      \* samples of a buffer converted on its own
MaxOps == 2         \* pushes and pulls on a circular queue exercised on its own

(***************************************************************************)
(* Program constants.                                                      *)
(***************************************************************************)
AVTP_V0_HEADER_SIZE == 12
AAF_HEADER_SIZE == 12
TOTAL_HEADER_SIZE == AVTP_V0_HEADER_SIZE + AAF_HEADER_SIZE
AVTP_SUBTYPE_AAF == 2
HIDX_AVTP_HIDE7_TV1 == 1
HIDX_AVTP_SEQ_NUM == 2
HIDX_AVTP_HIDE7_TU1 == 3
HIDX_STREAM_DATA_LEN16 == 20
HIDX_AVTP_HIDE7_SP == 22
SP_M0_BIT == 16
NANOSECONDS_PER_SECOND == 1000000000

AAF_RATE_UNSPEC == 0
AAF_RATE_8K == 1
AAF_RATE_16K == 2
AAF_RATE_32K == 3
AAF_RATE_44K1 == 4
AAF_RATE_48K == 5
AAF_RATE_88K2 == 6
AAF_RATE_96K == 7
AAF_RATE_176K4 == 8
AAF_RATE_192K == 9
AAF_RATE_24K == 10

AAF_FORMAT_UNSPEC == 0
AAF_FORMAT_FLOAT_32 == 1
AAF_FORMAT_INT_32 == 2
AAF_FORMAT_INT_24 == 3
AAF_FORMAT_INT_16 == 4

AAF_STATIC_CHANNELS_LAYOUT == 0
TS_SPARSE_MODE_DISABLED == 0
TS_SPARSE_MODE_ENABLED == 1

(***************************************************************************)
(* Bytes, words and buffers.                                               *)
(***************************************************************************)
\* F applied to the value of e: e is computed once, however often F uses it
Let(e, F(_)) == CHOOSE y \in { F(v) : v \in {e} } : TRUE

\* Buffers are built as explicit tuples (f \o <<>> is f as a tuple).
\* n zero bytes (memset(p, 0, n))
Zeros(n) == [i \in 1..n |-> 0] \o <<>>

\* bytes [off, off+n) of a buffer
Slice(buf, off, n) == Let(buf, LAMBDA b : [i \in 1..n |-> b[off + i]] \o <<>>)

\* memcpy(buf + off, data, Len(data))
WriteAt(buf, off, data) ==
    Let(<<buf, data, Len(buf), Len(data)>>, LAMBDA a :
        [i \in 1..a[3] |-> IF i > off /\ i <= off + a[4] THEN a[2][i - off] ELSE a[1][i]] \o <<>>)

\* x & mask and x | mask for one byte and a one-bit mask (mask a power of two)
ClearBit(x, mask) == IF (x \div mask) % 2 = 1 THEN x - mask ELSE x
SetBit(x, mask) == IF (x \div mask) % 2 = 1 THEN x ELSE x + mask
TestBit(x, mask) == (x \div mask) % 2 = 1

\* the 16-bit big-endian number at offset off of buf (ntohs)
BE16(buf, off) == buf[off + 1] * 256 + buf[off + 2]

RECURSIVE BitOr(_, _)
BitOr(a, b) ==
    IF a = 0 THEN b
    ELSE IF b = 0 THEN a
    ELSE (IF a % 2 = 1 \/ b % 2 = 1 THEN 1 ELSE 0) + 2 * BitOr(a \div 2, b \div 2)

\* A 32-bit word is kept as its four bytes, most significant first, which is
\* also the order htonl() leaves them in memory.
\* (x << sh) as a 32-bit word, for sh a multiple of 4: bits shifted past bit 31 are lost.
ShiftWord(x, sh) ==
    LET lo == (x * (IF sh % 8 = 4 THEN 16 ELSE 1))      \* the odd nibble
        k  == sh \div 8                                 \* whole bytes
        byteAt(j) == \* byte j (0 = least significant) of lo << (8*k)
            IF j < k THEN 0
            ELSE CASE j - k = 0 -> lo % 256
                   [] j - k = 1 -> (lo \div 256) % 256
                   [] j - k = 2 -> (lo \div 65536) % 256
                   [] OTHER     -> (lo \div 16777216) % 256
    IN <<byteAt(3), byteAt(2), byteAt(1), byteAt(0)>>

OrWord(w1, w2) == <<BitOr(w1[1], w2[1]), BitOr(w1[2], w2[2]), BitOr(w1[3], w2[3]), BitOr(w1[4], w2[4])>>

\* a 32-bit unsigned value as a pair of 16-bit halves, so that wrap-around at 2^32
\* is exact: a - b for naturals a, b below 2^16
U32Sub(a, b) ==
    IF a >= b THEN [hi |-> 0, lo |-> a - b]
    ELSE [hi |-> 65535, lo |-> 65536 - (b - a)]

\* (U32 pair) < n, for a natural n below 2^16
U32Less(x, n) == x.hi = 0 /\ x.lo < n

\* n > (U32 pair), for a natural n below 2^16
U32Greater(n, x) == x.hi = 0 /\ n > x.lo

(***************************************************************************)
(* Circular byte queue (circular_queue_t).  queueHead and queueTail are    *)
(* kept as offsets from queueStorage.  A queue without storage has         *)
(* queueStorage = NULL (storage FALSE).  Freshly allocated storage holds   *)
(* indeterminate bytes, written Uninit.  A write through a NULL storage    *)
(* pointer or past the end of the storage sets fault.                      *)
(***************************************************************************)
Uninit == 0 - 1

NULLBUF == [null |-> TRUE, bytes |-> <<>>]
Buf(s) == [null |-> FALSE, bytes |-> s]

\* the queue of a calloc'ed pvt_data_t, and the queue FreeCircularQueue leaves
FreeCircularQueue ==
    [storage |-> FALSE, queueStorage |-> <<>>, queueHead |-> 0, queueTail |-> 0,
     queueSize |-> 0, fault |-> FALSE]

\* AllocateCircularQueue: ok is whether malloc returned storage.  queueSize is set
\* before malloc is tried; head and tail only when it succeeded.
AllocateCircularQueue(pQueue, nQueueSize, ok) ==
    IF ok
    THEN [storage |-> TRUE, queueStorage |-> [i \in 1..nQueueSize |-> Uninit] \o <<>>,
          queueHead |-> 0, queueTail |-> 0, queueSize |-> nQueueSize, fault |-> pQueue.fault]
    ELSE [pQueue EXCEPT !.storage = FALSE, !.queueStorage = <<>>, !.queueSize = nQueueSize]

CircularQueueIsValid(pQueue) == pQueue.storage /\ pQueue.queueSize # 0

CircularQueueBytesQueued(pQueue) ==
    IF pQueue.queueTail > pQueue.queueHead
    THEN pQueue.queueHead + pQueue.queueSize - pQueue.queueTail
    ELSE pQueue.queueHead - pQueue.queueTail

\* memcpy/memset of n bytes into the storage at offset off; src NULL means zeros
StoreBytes(pQueue, off, src, from, n) ==
    IF n = 0 THEN pQueue
    ELSE IF ~pQueue.storage \/ off + n > Len(pQueue.queueStorage)
    THEN [pQueue EXCEPT !.fault = TRUE]
    ELSE [pQueue EXCEPT !.queueStorage =
            WriteAt(@, off, IF src.null THEN Zeros(n) ELSE Slice(src.bytes, from, n))]

\* a push that moves the head without wrapping it
PushBufferNoWrap(pQueue, pData, nDataSize) ==
    [StoreBytes(pQueue, pQueue.queueHead, pData, 0, nDataSize)
        EXCEPT !.queueHead = @ + nDataSize]

PushBufferToCircularQueue(pQueue, pData, nDataSize) ==
    Let(<<pQueue, pData>>, LAMBDA a :
      LET room == a[1].queueSize - a[1].queueHead
          bytesToCopyPhase1 == IF room > nDataSize THEN nDataSize ELSE room
          head1 == a[1].queueHead + bytesToCopyPhase1
      IN Let(StoreBytes(a[1], a[1].queueHead, a[2], 0, bytesToCopyPhase1), LAMBDA q1 :
           IF head1 >= q1.queueSize
           THEN IF bytesToCopyPhase1 < nDataSize
                THEN [StoreBytes(q1, 0, a[2], bytesToCopyPhase1, nDataSize - bytesToCopyPhase1)
                        EXCEPT !.queueHead = nDataSize - bytesToCopyPhase1]
                ELSE [q1 EXCEPT !.queueHead = 0]
           ELSE [q1 EXCEPT !.queueHead = head1]))

\* a push of nDataSize bytes leaves the bytes queued below the size of the queue, so
\* that it overwrites nothing that is still to be pulled
PushStaysBelow(pQueue, nDataSize) ==
    CircularQueueBytesQueued(pQueue) + nDataSize < pQueue.queueSize

\* bytes [off, off+n) of the storage as memcpy reads them; reading without storage
\* or past its end is a fault and yields indeterminate bytes
LoadBytes(pQueue, off, n) ==
    Let(<<pQueue.storage, pQueue.queueStorage, Len(pQueue.queueStorage)>>, LAMBDA a :
        [i \in 1..n |-> IF a[1] /\ off + i <= a[3] THEN a[2][off + i] ELSE Uninit] \o <<>>)

LoadFaults(pQueue, off, n) == n > 0 /\ (~pQueue.storage \/ off + n > Len(pQueue.queueStorage))

\* PullBufferFromCircularQueue: the queue afterwards (q) and the bytes copied to
\* pData (data); with pData NULL (copy FALSE) the bytes are skipped and data is empty.
PullBufferFromCircularQueue(pQueue, copy, nDataSize) ==
    Let(pQueue, LAMBDA q0 :
      LET room == q0.queueSize - q0.queueTail
          bytesToCopyPhase1 == IF room > nDataSize THEN nDataSize ELSE room
          bytesToCopyPhase2 == nDataSize - bytesToCopyPhase1
          tail1 == q0.queueTail + bytesToCopyPhase1
          wraps == tail1 >= q0.queueSize
          second == wraps /\ bytesToCopyPhase1 < nDataSize
      IN [q |-> [q0 EXCEPT
                   !.queueTail = IF second THEN bytesToCopyPhase2
                                 ELSE IF wraps THEN 0 ELSE tail1,
                   !.fault = @ \/ (copy /\ LoadFaults(q0, q0.queueTail, bytesToCopyPhase1))
                               \/ (copy /\ second /\ LoadFaults(q0, 0, bytesToCopyPhase2))],
          data |-> IF ~copy THEN <<>>
                   ELSE IF second
                   THEN LoadBytes(q0, q0.queueTail, bytesToCopyPhase1)
                          \o LoadBytes(q0, 0, bytesToCopyPhase2)
                   ELSE LoadBytes(q0, q0.queueTail, bytesToCopyPhase1)])

\* memcmp(src + from, queueStorage + off, n) == 0: the set of values it can have.  A
\* byte read past the end of src or of the storage, or never written, is
\* indeterminate; a difference between two determinate bytes decides the result.
MemcmpEqual(src, from, pQueue, off, n) ==
    LET known(i) == /\ from + i <= Len(src)
                    /\ pQueue.storage /\ off + i <= Len(pQueue.queueStorage)
                    /\ pQueue.queueStorage[off + i] # Uninit
    IN IF \E i \in 1..n : known(i) /\ src[from + i] # pQueue.queueStorage[off + i]
       THEN {FALSE}
       ELSE IF \E i \in 1..n : ~known(i) THEN {TRUE, FALSE}
       ELSE {TRUE}

\* CompareBufferToCircularQueue: the set of values it can return
CompareBufferToCircularQueue(pQueue, pData, nDataSize) ==
    IF pData.null THEN {FALSE}
    ELSE LET room == pQueue.queueSize - pQueue.queueTail
             bytesToComparePhase1 == IF room > nDataSize THEN nDataSize ELSE room
             bytesToComparePhase2 == nDataSize - bytesToComparePhase1
         IN { e1 /\ (bytesToComparePhase1 < nDataSize => e2) :
                e1 \in MemcmpEqual(pData.bytes, 0, pQueue, pQueue.queueTail,
                                   bytesToComparePhase1),
                e2 \in MemcmpEqual(pData.bytes, bytesToComparePhase2, pQueue, 0,
                                   bytesToComparePhase2) }

(***************************************************************************)
(* Session state and the size calculator.                                  *)
(***************************************************************************)
\* rate codes that count up with the rate
RateCodeInRateOrder(audioRate) ==
    CASE audioRate = 8000   -> 1
      [] audioRate = 16000  -> 2
      [] audioRate = 24000  -> 3
      [] audioRate = 32000  -> 4
      [] audioRate = 44100  -> 5
      [] audioRate = 48000  -> 6
      [] audioRate = 88200  -> 7
      [] audioRate = 96000  -> 8
      [] audioRate = 176400 -> 9
      [] audioRate = 192000 -> 10
      [] OTHER              -> 0

\* the audio rates x_calculateSizes knows, in Hz, with their AAF rate codes
RateCode(audioRate) ==
    CASE audioRate = 8000   -> AAF_RATE_8K
      [] audioRate = 16000  -> AAF_RATE_16K
      [] audioRate = 24000  -> AAF_RATE_24K
      [] audioRate = 32000  -> AAF_RATE_32K
      [] audioRate = 44100  -> AAF_RATE_44K1
      [] audioRate = 48000  -> AAF_RATE_48K
      [] audioRate = 88200  -> AAF_RATE_88K2
      [] audioRate = 96000  -> AAF_RATE_96K
      [] audioRate = 176400 -> AAF_RATE_176K4
      [] audioRate = 192000 -> AAF_RATE_192K
      [] OTHER              -> AAF_RATE_UNSPEC

\* formats whose samples all take four bytes
FormatOfFourBytes(audioType, audioBitDepth) ==
    IF audioType = "int" /\ audioBitDepth \in {16, 24, 32}
    THEN [known |-> TRUE, format |-> 6 - (audioBitDepth \div 8), size |-> 4,
          depth |-> audioBitDepth]
    ELSE IF audioType = "float" /\ audioBitDepth = 32
    THEN [known |-> TRUE, format |-> AAF_FORMAT_FLOAT_32, size |-> 4, depth |-> 32]
    ELSE [known |-> FALSE, format |-> AAF_FORMAT_UNSPEC, size |-> 0, depth |-> 0]

\* the sample format and size one (audioType, audioBitDepth) selects; known FALSE is
\* the default: branch, which sets the format to unspec and leaves the sizes alone
FormatOf(audioType, audioBitDepth) ==
    IF audioType = "float"
    THEN IF audioBitDepth = 32
         THEN [known |-> TRUE, format |-> AAF_FORMAT_FLOAT_32, size |-> 4, depth |-> 32]
         ELSE [known |-> FALSE, format |-> AAF_FORMAT_UNSPEC, size |-> 0, depth |-> 0]
    ELSE CASE audioBitDepth = 32 ->
                [known |-> TRUE, format |-> AAF_FORMAT_INT_32, size |-> 4, depth |-> 32]
           [] audioBitDepth = 24 ->
                [known |-> TRUE, format |-> AAF_FORMAT_INT_24, size |-> 3, depth |-> 24]
           [] audioBitDepth = 16 ->
                [known |-> TRUE, format |-> AAF_FORMAT_INT_16, size |-> 2, depth |-> 16]
           [] OTHER ->
                [known |-> FALSE, format |-> AAF_FORMAT_UNSPEC, size |-> 0, depth |-> 0]

IsIntFormat(f) == f >= AAF_FORMAT_INT_32 /\ f <= AAF_FORMAT_INT_16

\* x_calculateSizes: the public and private session data it leaves
x_calculateSizes(pPubMapInfo, pPvtData) ==
    LET rate == RateCode(pPubMapInfo.audioRate)
        offsetSamples ==
            IF rate = AAF_RATE_UNSPEC THEN pPvtData.temporalRedundantOffsetSamples
            ELSE (pPvtData.temporalRedundantOffsetUsec * pPubMapInfo.audioRate) \div 1000000
        fmt == FormatOf(pPubMapInfo.audioType, pPubMapInfo.audioBitDepth)
        itemSampleSizeBytes == IF fmt.known THEN fmt.size ELSE pPubMapInfo.itemSampleSizeBytes
        packetSampleSizeBytes == IF fmt.known THEN fmt.size ELSE pPubMapInfo.packetSampleSizeBytes
        bitDepth == IF fmt.known THEN fmt.depth ELSE pPvtData.aaf_bit_depth
        framesPerPacket ==
            (pPubMapInfo.audioRate \div pPvtData.txInterval)
            + (IF pPubMapInfo.audioRate % pPvtData.txInterval # 0 THEN 1 ELSE 0)
        packetFrameSizeBytes == packetSampleSizeBytes * pPubMapInfo.audioChannels
        payloadSize == framesPerPacket * packetFrameSizeBytes
        maxListener0 ==
            IF IsIntFormat(fmt.format)
            THEN 4 * pPubMapInfo.audioChannels * framesPerPacket
            ELSE payloadSize
        framesPerItem == framesPerPacket * pPvtData.packingFactor
        itemFrameSizeBytes == itemSampleSizeBytes * pPubMapInfo.audioChannels
        redundant == pPvtData.temporalRedundantOffsetUsec > 0
    IN  [pub |-> [pPubMapInfo EXCEPT
                    !.itemSampleSizeBytes = itemSampleSizeBytes,
                    !.packetSampleSizeBytes = packetSampleSizeBytes,
                    !.framesPerPacket = framesPerPacket,
                    !.packetFrameSizeBytes = packetFrameSizeBytes,
                    !.packingFactor = pPvtData.packingFactor,
                    !.framesPerItem = framesPerItem,
                    !.itemFrameSizeBytes = itemFrameSizeBytes,
                    !.itemSize = itemFrameSizeBytes * framesPerItem],
         pvt |-> [pPvtData EXCEPT
                    !.aaf_rate = rate,
                    !.temporalRedundantOffsetSamples = offsetSamples,
                    !.aaf_format = fmt.format,
                    !.aaf_bit_depth = bitDepth,
                    !.payloadSize = payloadSize,
                    !.payloadSizeMaxTalker = IF redundant THEN payloadSize * 2 ELSE payloadSize,
                    !.payloadSizeMaxListener = maxListener0 * 2,
                    !.temporalRedundantQueueFrameSize = maxListener0,
                    !.temporalRedundantOffsetPackets =
                        IF redundant THEN offsetSamples \div framesPerPacket ELSE @]]

\* openavbMapAVTPAudioInitialize: the calloc'ed private data with its defaults
Initialize(inMaxTransitUsec) ==
    [itemCount |-> 20, txInterval |-> 4000, packingFactor |-> 1,
     temporalRedundantOffsetUsec |-> 0, report_seconds |-> 0,
     maxTransitUsec |-> inMaxTransitUsec,
     aaf_rate |-> 0, aaf_format |-> 0, aaf_bit_depth |-> 0,
     payloadSize |-> 0, payloadSizeMaxTalker |-> 0, payloadSizeMaxListener |-> 0,
     isTalker |-> FALSE, aaf_event_field |-> AAF_STATIC_CHANNELS_LAYOUT,
     dataValid |-> FALSE, sparseMode |-> TS_SPARSE_MODE_DISABLED,
     mediaQItemSyncTS |-> FALSE,
     temporalRedundantOffsetSamples |-> 0, temporalRedundantOffsetPackets |-> 0,
     temporalRedundantQueueFrameSize |-> 0,
     trStatsTotalFrames |-> 0, trStatsLostFrames |-> 0,
     trStatsNeededAvailable |-> 0, trStatsNeededNotAvailable |-> 0,
     nextReportNS |-> 0]

\* the calloc'ed public map info, with the audio parameters the interface module sets
PubMapInfo(audioRate, audioType, audioBitDepth, audioChannels) ==
    [audioRate |-> audioRate, audioType |-> audioType,
     audioBitDepth |-> audioBitDepth, audioChannels |-> audioChannels,
     itemSampleSizeBytes |-> 0, packetSampleSizeBytes |-> 0, framesPerPacket |-> 0,
     packetFrameSizeBytes |-> 0, packingFactor |-> 0, framesPerItem |-> 0,
     itemFrameSizeBytes |-> 0, itemSize |-> 0, presentationLatencyUSec |-> 0]

\* openavbMapAVTPAudioCfgCB for the keys the model configures
CfgCB(pPvtData, c) ==
    [pPvtData EXCEPT !.txInterval = c.txInterval,
                     !.packingFactor = c.packingFactor,
                     !.sparseMode = c.sparseMode,
                     !.temporalRedundantOffsetUsec = c.temporalRedundantOffsetUsec,
                     !.report_seconds = c.report_seconds]

(***************************************************************************)
(* The media queue and the AVTP time of an item, as the mapping uses them  *)
(* (openavb_mediaq_pub.h, openavb_avtp_time_pub.h).  items are the queued  *)
(* items, tail first; head is the item being filled at the head, if one is *)
(* (a sequence of at most one item).  The queue has MaxItems items in all. *)
(***************************************************************************)
AvtpTime(ns, valid, uncertain) ==
    [timeNsec |-> ns, bTimestampValid |-> valid, bTimestampUncertain |-> uncertain]

openavbAvtpTimeAddUSec(t, usec) == [t EXCEPT !.timeNsec = @ + usec * 1000]
openavbAvtpTimeSubUSec(t, usec) == [t EXCEPT !.timeNsec = @ - usec * 1000]
openavbAvtpTimeSetTimestampValid(t, v) == [t EXCEPT !.bTimestampValid = v]
openavbAvtpTimeSetTimestampUncertain(t, v) == [t EXCEPT !.bTimestampUncertain = v]
openavbAvtpTimeSetToTimestamp(t, ts) == [t EXCEPT !.timeNsec = ts]
\* the 32-bit timestamp as the four bytes htonl() stores: the low 32 bits of the time.
\* Times are kept as their residue modulo 2^32 in the signed range, so that -1000
\* stands for 2^32 - 1000 ns and the sum wraps through 0.
openavbAvtpTimeGetAvtpTimestamp(t) == ShiftWord(t.timeNsec, 0)

MediaQItem(data, t) == [pPubData |-> data, dataLen |-> Len(data), readIdx |-> 0, pAvtpTime |-> t]

RECURSIVE BytesAvailable(_)
BytesAvailable(items) ==
    IF items = <<>> THEN 0
    ELSE (Head(items).dataLen - Head(items).readIdx) + BytesAvailable(Tail(items))

\* openavbMediaQIsAvailableBytes(pMediaQ, bytes, TRUE)
openavbMediaQIsAvailableBytes(q, bytes) ==
    q.items # <<>> /\ BytesAvailable(q.items) >= bytes

\* an item nothing has been written to: its buffer has room for itemSize bytes
EmptyItem(itemSize) ==
    [pPubData |-> Zeros(itemSize), dataLen |-> 0, readIdx |-> 0,
     pAvtpTime |-> AvtpTime(0, FALSE, FALSE)]

\* openavbMediaQHeadLock: the head item (<<item>>), or <<>> (NULL) when every item of
\* the queue is waiting for the reader
openavbMediaQHeadLock(q, itemSize) ==
    IF q.head # <<>> THEN q.head
    ELSE IF Len(q.items) < MaxItems THEN <<EmptyItem(itemSize)>>
    ELSE <<>>

\* openavbMediaQHeadUnlock: the item stays at the head, as written so far
openavbMediaQHeadUnlock(q, item) == [q EXCEPT !.head = <<item>>]

\* openavbMediaQHeadPush: the item is released to the reader
openavbMediaQHeadPush(q, item) == [q EXCEPT !.items = @ \o <<item>>, !.head = <<>>]

\* byte j (from 1) of the audio the interface module feeds: distinct and never 0 or 255
AudioByte(j) == ((j - 1) % 250) + 1
AudioBytes(from, n) == [i \in 1..n |-> AudioByte(from + i)] \o <<>>

(***************************************************************************)
(* Talker: openavbMapAVTPAudioTxCB.                                        *)
(***************************************************************************)
\* the frame buffer the AVTP layer hands to tx: subtype and sequence number set,
\* every other byte holding what an earlier use left (fill)
TxBufferIn(seq, fill, n) ==
    [i \in 1..n |-> IF i = 1 THEN AVTP_SUBTYPE_AAF
                    ELSE IF i = HIDX_AVTP_SEQ_NUM + 1 THEN seq ELSE fill] \o <<>>

\* format info word: format, sample rate, channels per frame, bit depth
FormatInfoWord(pPubMapInfo, pPvtData) ==
    OrWord(OrWord(ShiftWord(pPvtData.aaf_format, 24), ShiftWord(pPvtData.aaf_rate, 20)),
           OrWord(ShiftWord(pPubMapInfo.audioChannels, 8), ShiftWord(pPvtData.aaf_bit_depth, 0)))

\* packet info word: data length, event field
PacketInfoWord(pPvtData) ==
    OrWord(ShiftWord(pPvtData.payloadSize, 16), ShiftWord(pPvtData.aaf_event_field, 8))

TxTimestampWholeBytes(pPvtData, buf, pHdr, item) ==
    LET t2 == openavbAvtpTimeAddUSec(item.pAvtpTime,
                 pPvtData.maxTransitUsec
                 + (IF pPvtData.temporalRedundantOffsetUsec > 0
                    THEN pPvtData.temporalRedundantOffsetUsec ELSE 0))
    IN  IF (pPvtData.sparseMode = TS_SPARSE_MODE_ENABLED /\ buf[HIDX_AVTP_SEQ_NUM + 1] % 8 # 0)
           \/ ~item.pAvtpTime.bTimestampValid
        THEN [buf |-> WriteAt([buf EXCEPT ![HIDX_AVTP_HIDE7_TV1 + 1] = 0,
                                          ![HIDX_AVTP_HIDE7_TU1 + 1] = 0],
                              pHdr, Zeros(4)),
              time |-> item.pAvtpTime]
        ELSE [buf |-> WriteAt([buf EXCEPT
                                 ![HIDX_AVTP_HIDE7_TV1 + 1] = 1,
                                 ![HIDX_AVTP_HIDE7_TU1 + 1] =
                                     IF t2.bTimestampUncertain THEN 1 ELSE 0],
                              pHdr, openavbAvtpTimeGetAvtpTimestamp(t2)),
              time |-> openavbAvtpTimeSetTimestampValid(t2, FALSE)]

\* a timestamp step that leaves the item's timestamp valid after use
TxTimestampStaysValid(pPvtData, buf, pHdr, item) ==
    LET tv == buf[HIDX_AVTP_HIDE7_TV1 + 1]
        tu == buf[HIDX_AVTP_HIDE7_TU1 + 1]
        t2 == openavbAvtpTimeAddUSec(item.pAvtpTime,
                 pPvtData.maxTransitUsec
                 + (IF pPvtData.temporalRedundantOffsetUsec > 0
                    THEN pPvtData.temporalRedundantOffsetUsec ELSE 0))
    IN  IF (pPvtData.sparseMode = TS_SPARSE_MODE_ENABLED /\ buf[HIDX_AVTP_SEQ_NUM + 1] % 8 # 0)
           \/ ~item.pAvtpTime.bTimestampValid
        THEN [buf |-> WriteAt([buf EXCEPT ![HIDX_AVTP_HIDE7_TV1 + 1] = ClearBit(tv, 1),
                                          ![HIDX_AVTP_HIDE7_TU1 + 1] = ClearBit(tu, 1)],
                              pHdr, Zeros(4)),
              time |-> item.pAvtpTime]
        ELSE [buf |-> WriteAt([buf EXCEPT
                                 ![HIDX_AVTP_HIDE7_TV1 + 1] = SetBit(tv, 1),
                                 ![HIDX_AVTP_HIDE7_TU1 + 1] =
                                     IF t2.bTimestampUncertain THEN SetBit(tu, 1)
                                     ELSE ClearBit(tu, 1)],
                              pHdr, openavbAvtpTimeGetAvtpTimestamp(t2)),
              time |-> t2]

\* the timestamp part of the header: the buffer and the item's time after it
TxTimestamp(pPvtData, buf, pHdr, item) ==
    LET tv == buf[HIDX_AVTP_HIDE7_TV1 + 1]
        tu == buf[HIDX_AVTP_HIDE7_TU1 + 1]
        t2 == openavbAvtpTimeAddUSec(item.pAvtpTime,
                 pPvtData.maxTransitUsec
                 + (IF pPvtData.temporalRedundantOffsetUsec > 0
                    THEN pPvtData.temporalRedundantOffsetUsec ELSE 0))
    IN  IF (pPvtData.sparseMode = TS_SPARSE_MODE_ENABLED /\ buf[HIDX_AVTP_SEQ_NUM + 1] % 8 # 0)
           \/ ~item.pAvtpTime.bTimestampValid
        THEN [buf |-> WriteAt([buf EXCEPT ![HIDX_AVTP_HIDE7_TV1 + 1] = ClearBit(tv, 1),
                                          ![HIDX_AVTP_HIDE7_TU1 + 1] = ClearBit(tu, 1)],
                              pHdr, Zeros(4)),
              time |-> item.pAvtpTime]
        ELSE [buf |-> WriteAt([buf EXCEPT
                                 ![HIDX_AVTP_HIDE7_TV1 + 1] = SetBit(tv, 1),
                                 ![HIDX_AVTP_HIDE7_TU1 + 1] =
                                     IF t2.bTimestampUncertain THEN SetBit(tu, 1)
                                     ELSE ClearBit(tu, 1)],
                              pHdr, openavbAvtpTimeGetAvtpTimestamp(t2)),
              time |-> openavbAvtpTimeSetTimestampValid(t2, FALSE)]

\* the rest of the header, written after the timestamp: format info, packet info, sp flag
TxHeader(pPubMapInfo, pPvtData, buf, pHdr) ==
    [WriteAt(WriteAt(buf, pHdr, FormatInfoWord(pPubMapInfo, pPvtData)),
             pHdr + 4, PacketInfoWord(pPvtData))
       EXCEPT ![HIDX_AVTP_HIDE7_SP + 1] =
            IF pPvtData.sparseMode = TS_SPARSE_MODE_ENABLED
            THEN SetBit(@, SP_M0_BIT) ELSE ClearBit(@, SP_M0_BIT)]

TxItemDoneLate(item, readIdx) == readIdx > item.dataLen

\* whether tx has finished reading the entire item, and so pulls it
TxItemDone(item, readIdx) == readIdx >= item.dataLen

\* one pass of the frame-gathering loop over an item that holds data: the header is
\* written, then the payload is copied unless the item is short of one packet
TxLoopItem(pPubMapInfo, pPvtData, s, item) ==
    Let(TxTimestamp(pPvtData, s.buf, s.pHdr, item), LAMBDA ts :
        IF item.dataLen - item.readIdx < pPvtData.payloadSize
        THEN [s EXCEPT !.items = Tail(@),
                       !.buf = TxHeader(pPubMapInfo, pPvtData, ts.buf, s.pHdr + 4),
                       !.pHdr = @ + 12,
                       !.ops = @ \o <<"TailLock", "TailPull">>,
                       !.src = @ \o <<[item |-> item, readIdx |-> item.readIdx,
                                       op |-> "TailPull"]>>,
                       !.ret = "PACKET_NOT_READY"]
        ELSE LET readIdx == item.readIdx + pPvtData.payloadSize
                 done == TxItemDone(item, readIdx)
             IN [s EXCEPT
                   !.items = IF done THEN Tail(@)
                             ELSE <<[item EXCEPT !.readIdx = readIdx, !.pAvtpTime = ts.time]>>
                                  \o Tail(@),
                   !.buf = WriteAt(TxHeader(pPubMapInfo, pPvtData, ts.buf, s.pHdr + 4),
                                   s.pPayload,
                                   Slice(item.pPubData, item.readIdx, pPvtData.payloadSize)),
                   !.pHdr = @ + 12,
                   !.bytesProcessed = @ + pPvtData.payloadSize,
                   !.ops = @ \o <<"TailLock", IF done THEN "TailPull" ELSE "TailUnlock">>,
                   !.src = @ \o <<[item |-> item, readIdx |-> readIdx,
                                   op |-> IF done THEN "TailPull" ELSE "TailUnlock"]>>])

\* the frame-gathering loop.  An item without a data buffer has pPubData = <<>>.  When
\* TailLock returns NULL the pass calls TailPull, which has no item to remove, and
\* leaves bytesProcessed and the queue as they were, so that every later pass is the
\* same and the loop does not end: ret is then "HANG".
\* the frame-gathering loop.  s holds items (the media queue), buf, pHdr and pPayload
\* (offsets into buf), bytesProcessed, ops (the media-queue calls made), src (for every
\* item TailLock returned: the item as it was, its readIdx when it was released, and
\* the call that released it) and ret ("" while the loop has not returned).
RECURSIVE TxLoop(_, _, _, _)
TxLoop(pPubMapInfo, pPvtData, bytesNeeded, s) ==
    IF s.bytesProcessed >= bytesNeeded \/ s.ret # "" THEN s
    ELSE IF s.items = <<>>
    THEN \* TailLock returns NULL and TailPull changes nothing: the loop cannot advance
         [s EXCEPT !.ops = @ \o <<"TailLockNull", "TailPull">>, !.ret = "HANG"]
    ELSE IF Head(s.items).pPubData # <<>> /\ Head(s.items).dataLen > 0
    THEN Let(TxLoopItem(pPubMapInfo, pPvtData, s, Head(s.items)), LAMBDA s1 :
             TxLoop(pPubMapInfo, pPvtData, bytesNeeded, s1))
    ELSE Let([s EXCEPT !.items = Tail(@), !.ops = @ \o <<"TailLock", "TailPull">>,
                       !.src = @ \o <<[item |-> Head(s.items), readIdx |-> Head(s.items).readIdx,
                                       op |-> "TailPull"]>>],
             LAMBDA s1 :
             TxLoop(pPubMapInfo, pPvtData, bytesNeeded, s1))

\* the temporal redundancy step of tx: the queue and the buffer after it, and whether
\* its pushes stayed below the size of the queue
TxRedundancy(pPvtData, pQueue, buf, bytesNeeded) ==
    LET frameSize == pPvtData.temporalRedundantQueueFrameSize
    IN Let(PushBufferToCircularQueue(pQueue,
              Buf(Slice(buf, TOTAL_HEADER_SIZE + bytesNeeded, bytesNeeded)), bytesNeeded),
         LAMBDA q1 :
       Let(IF bytesNeeded < frameSize
           THEN PushBufferToCircularQueue(q1, NULLBUF, frameSize - bytesNeeded) ELSE q1,
         LAMBDA q2 :
       Let(PullBufferFromCircularQueue(q2, TRUE, bytesNeeded),
         LAMBDA p3 :
           [q |-> IF bytesNeeded < frameSize
                  THEN PullBufferFromCircularQueue(p3.q, FALSE, frameSize - bytesNeeded).q
                  ELSE p3.q,
            buf |-> WriteAt(buf, TOTAL_HEADER_SIZE, p3.data),
            below |-> /\ PushStaysBelow(pQueue, bytesNeeded)
                      /\ bytesNeeded < frameSize =>
                            PushStaysBelow(q1, frameSize - bytesNeeded)])))

TxDataLenOnePayload(pPvtData, bytesNeeded) == bytesNeeded + TOTAL_HEADER_SIZE

\* the out bound data length: the entire packet, larger when redundancy is on
TxDataLen(pPvtData, bytesNeeded) ==
    bytesNeeded + TOTAL_HEADER_SIZE
    + (IF pPvtData.temporalRedundantOffsetUsec > 0 THEN bytesNeeded ELSE 0)

\* what tx returns when it gives up before the loop: nothing is changed, and ops holds
\* the media-queue calls made
TxNotReady(pQueue, q, pData, dataLen, ops) ==
    [ret |-> "PACKET_NOT_READY", buf |-> pData, dataLen |-> dataLen,
     items |-> q.items, queue |-> pQueue, ops |-> ops, src |-> <<>>, below |-> TRUE]

\* tx from the loop on, once the checks on the frame length and the queue have passed
TxGather(pPubMapInfo, pPvtData, pQueue, q, pData, dataLen, bytesNeeded) ==
    LET redundant == pPvtData.temporalRedundantOffsetUsec > 0
    IN Let(TxLoop(pPubMapInfo, pPvtData, bytesNeeded,
                  [items |-> q.items, buf |-> pData, pHdr |-> AVTP_V0_HEADER_SIZE,
                   pPayload |-> TOTAL_HEADER_SIZE + (IF redundant THEN bytesNeeded ELSE 0),
                   bytesProcessed |-> 0, ops |-> <<>>, src |-> <<>>, ret |-> ""]),
         LAMBDA s :
           IF s.ret # ""
           THEN [ret |-> s.ret, buf |-> s.buf, dataLen |-> dataLen, items |-> s.items,
                 queue |-> pQueue, ops |-> s.ops, src |-> s.src, below |-> TRUE]
           ELSE IF redundant
           THEN Let(TxRedundancy(pPvtData, pQueue, s.buf, bytesNeeded), LAMBDA r :
                    [ret |-> "PACKET_READY", buf |-> r.buf,
                     dataLen |-> TxDataLen(pPvtData, bytesNeeded),
                     items |-> s.items, queue |-> r.q, ops |-> s.ops, src |-> s.src,
                     below |-> r.below])
           ELSE [ret |-> "PACKET_READY", buf |-> s.buf,
                 dataLen |-> TxDataLen(pPvtData, bytesNeeded),
                 items |-> s.items, queue |-> pQueue, ops |-> s.ops, src |-> s.src,
                 below |-> TRUE])

\* whether tx finds the frame too short for the payload (for one payload, and for two
\* when redundancy is on): the room is computed in 32-bit unsigned arithmetic
TxNoRoom(pPvtData, dataLen) ==
    \/ U32Less(U32Sub(dataLen, TOTAL_HEADER_SIZE), pPvtData.payloadSize)
    \/ /\ pPvtData.temporalRedundantOffsetUsec > 0
       /\ U32Less(U32Sub(dataLen, TOTAL_HEADER_SIZE), pPvtData.payloadSize * 2)

\* openavbMapAVTPAudioTxCB(pMediaQ, pData, dataLen): what the call returns and leaves.
\* pData is the frame buffer, dataLen the length the caller passes in *dataLen.
openavbMapAVTPAudioTxCB(pPubMapInfo, pPvtData, pQueue, q, pData, dataLen) ==
    LET bytesNeeded == pPubMapInfo.itemFrameSizeBytes * pPubMapInfo.framesPerPacket
    IN  IF ~openavbMediaQIsAvailableBytes(q, bytesNeeded)
        THEN TxNotReady(pQueue, q, pData, dataLen, <<>>)
        ELSE IF TxNoRoom(pPvtData, dataLen)
        THEN TxNotReady(pQueue, q, pData, dataLen, <<"TailUnlock">>)
        ELSE IF pPvtData.temporalRedundantOffsetUsec > 0 /\ ~CircularQueueIsValid(pQueue)
        THEN TxNotReady(pQueue, q, pData, dataLen, <<"TailUnlock">>)
        ELSE TxGather(pPubMapInfo, pPvtData, pQueue, q, pData, dataLen, bytesNeeded)

(***************************************************************************)
(* Listener: openavbMapAVTPAudioRxCB.                                      *)
(***************************************************************************)
\* the value of a 32-bit word kept as four bytes (for words below 2^31)
WordValue(w) == ((w[1] * 256 + w[2]) * 256 + w[3]) * 256 + w[4]

\* n bytes of buf from offset off as the code reads them: a read past the end of the
\* buffer gives an indeterminate byte
ReadBytes(buf, off, n) ==
    Let(<<buf, Len(buf)>>, LAMBDA a :
        [i \in 1..n |-> IF off + i <= a[2] THEN a[1][off + i] ELSE Uninit] \o <<>>)


\* a header reader that takes the event field from the last byte of the packet info
RxFieldsEventByte23(pData) ==
    [timestamp |-> Slice(pData, AVTP_V0_HEADER_SIZE, 4),
     tv |-> TestBit(pData[HIDX_AVTP_HIDE7_TV1 + 1], 1),
     tu |-> TestBit(pData[HIDX_AVTP_HIDE7_TU1 + 1], 1),
     incoming_aaf_format |-> pData[17],
     rate |-> pData[18] \div 16,
     channels |-> (pData[18] % 4) * 256 + pData[19],
     incoming_bit_depth |-> pData[20],
     payloadLen |-> pData[HIDX_STREAM_DATA_LEN16 + 1] * 256 + pData[HIDX_STREAM_DATA_LEN16 + 2],
     event |-> pData[24] % 16,
     streamSparseMode |-> TestBit(pData[HIDX_AVTP_HIDE7_SP + 1], SP_M0_BIT)]

\* the header fields rx decodes from the frame
RxFields(pData) ==
    [timestamp |-> Slice(pData, AVTP_V0_HEADER_SIZE, 4),
     tv |-> TestBit(pData[HIDX_AVTP_HIDE7_TV1 + 1], 1),
     tu |-> TestBit(pData[HIDX_AVTP_HIDE7_TU1 + 1], 1),
     incoming_aaf_format |-> pData[17],
     rate |-> pData[18] \div 16,
     channels |-> (pData[18] % 4) * 256 + pData[19],
     incoming_bit_depth |-> pData[20],
     payloadLen |-> pData[HIDX_STREAM_DATA_LEN16 + 1] * 256 + pData[HIDX_STREAM_DATA_LEN16 + 2],
     event |-> pData[23] % 16,
     streamSparseMode |-> TestBit(pData[HIDX_AVTP_HIDE7_SP + 1], SP_M0_BIT)]

\* whether rx converts the incoming samples: the formats differ and both are integer
RxConversionEnabled(pPvtData, h) ==
    /\ h.incoming_aaf_format # pPvtData.aaf_format
    /\ IsIntFormat(h.incoming_aaf_format) /\ IsIntFormat(pPvtData.aaf_format)

\* the checks rx makes on the header, each TRUE when the packet fails it
RxChecks(pPubMapInfo, pPvtData, h, dataLen) ==
    [length |-> U32Greater(h.payloadLen, U32Sub(dataLen, TOTAL_HEADER_SIZE)),
     format |-> h.incoming_aaf_format # pPvtData.aaf_format
                /\ ~RxConversionEnabled(pPvtData, h),
     rate |-> h.rate # pPvtData.aaf_rate,
     channels |-> h.channels # pPubMapInfo.audioChannels,
     bit_depth |-> h.incoming_bit_depth = 0,
     payload |-> /\ h.payloadLen # pPvtData.payloadSize
                 /\ (RxConversionEnabled(pPvtData, h) =>
                       h.payloadLen \div (6 - h.incoming_aaf_format)
                         # pPvtData.payloadSize \div (6 - pPvtData.aaf_format))]

\* the local dataValid of rx after the header checks
RxDataValid(c) ==
    ~(c.length \/ c.format \/ c.rate \/ c.channels \/ c.bit_depth \/ c.payload)

\* a conversion that pads a widened sample with 0xFF bytes
RECURSIVE ConvertSamplesPadOnes(_, _, _, _, _)
ConvertSamplesPadOnes(buf, off, end, nIn, nOut) ==
    IF off >= end THEN <<>>
    ELSE (IF nIn < nOut
          THEN Slice(buf, off, nIn) \o [i \in 1..(nOut - nIn) |-> 255]
          ELSE Slice(buf, off, nOut))
         \o ConvertSamplesPadOnes(buf, off + nIn, end, nIn, nOut)

\* a conversion that keeps the last bytes of a sample instead of the first
RECURSIVE ConvertSamplesLowBytes(_, _, _, _, _)
ConvertSamplesLowBytes(buf, off, end, nIn, nOut) ==
    IF off >= end THEN <<>>
    ELSE (IF nIn < nOut
          THEN Zeros(nOut - nIn) \o Slice(buf, off, nIn)
          ELSE Slice(buf, off + nIn - nOut, nOut))
         \o ConvertSamplesLowBytes(buf, off + nIn, end, nIn, nOut)

\* the integer sample conversion loops: the bytes written for the input
\* [off, end) of buf, samples of nIn bytes becoming samples of nOut bytes
RECURSIVE ConvertSamples(_, _, _, _, _)
ConvertSamples(buf, off, end, nIn, nOut) ==
    IF off >= end THEN <<>>
    ELSE (IF nIn < nOut
          THEN ReadBytes(buf, off, nIn) \o Zeros(nOut - nIn)
          ELSE ReadBytes(buf, off, nOut))
         \o ConvertSamples(buf, off + nIn, end, nIn, nOut)

\* a step that enables sparse mode for a sparse stream and never disables it
RxAdaptOnlyEnables(pPvtData, h, dataLen) ==
    [pPvtData EXCEPT
       !.sparseMode = IF h.streamSparseMode THEN TS_SPARSE_MODE_ENABLED ELSE @,
       !.temporalRedundantOffsetUsec =
           IF @ > 0 /\ dataLen < TOTAL_HEADER_SIZE + 2 * h.payloadLen THEN 0 ELSE @]

RxAdaptKeepsRedundancy(pPvtData, h, dataLen) ==
    [pPvtData EXCEPT
       !.sparseMode = IF h.streamSparseMode THEN TS_SPARSE_MODE_ENABLED
                      ELSE TS_SPARSE_MODE_DISABLED]

\* the session after rx has matched its sparse mode to the stream and, when the frame
\* cannot hold two payloads, has disabled temporal redundancy
RxAdapt(pPvtData, h, dataLen) ==
    [pPvtData EXCEPT
       !.sparseMode = IF h.streamSparseMode THEN TS_SPARSE_MODE_ENABLED
                      ELSE TS_SPARSE_MODE_DISABLED,
       !.temporalRedundantOffsetUsec =
           IF @ > 0 /\ dataLen < TOTAL_HEADER_SIZE + 2 * h.payloadLen THEN 0 ELSE @]

\* the item rx writes to, after the timestamp of its first data is set: the item, the
\* session's mediaQItemSyncTS, and whether the data is still valid
RxItemTimestamp(pPubMapInfo, pPvtData, h, item) ==
    IF item.dataLen # 0
    THEN [item |-> item, sync |-> pPvtData.mediaQItemSyncTS, dataValid |-> TRUE]
    ELSE IF h.tv
    THEN [item |-> [item EXCEPT !.pAvtpTime =
                      openavbAvtpTimeSetTimestampUncertain(
                        openavbAvtpTimeSubUSec(
                          openavbAvtpTimeSetToTimestamp(
                            openavbAvtpTimeSetTimestampValid(@, TRUE),
                            WordValue(h.timestamp)),
                          pPubMapInfo.presentationLatencyUSec),
                        h.tu)],
          sync |-> TRUE, dataValid |-> TRUE]
    ELSE [item |-> [item EXCEPT !.pAvtpTime = openavbAvtpTimeSetTimestampValid(@, FALSE)],
          sync |-> pPvtData.mediaQItemSyncTS,
          dataValid |-> pPvtData.mediaQItemSyncTS]

\* the bytes rx writes to the item for the frame's first payload
RxPayload(pPvtData, h, pData) ==
    IF ~RxConversionEnabled(pPvtData, h)
    THEN ReadBytes(pData, TOTAL_HEADER_SIZE, pPvtData.payloadSize)
    ELSE ConvertSamples(pData, TOTAL_HEADER_SIZE, TOTAL_HEADER_SIZE + h.payloadLen,
                        6 - h.incoming_aaf_format, 6 - pPvtData.aaf_format)

RxStoreAtStart(pPubMapInfo, pPvtData, q, t, bytes) ==
    Let(IF t.dataValid
        THEN [t.item EXCEPT !.pPubData = WriteAt(@, 0, bytes),
                            !.dataLen = @ + pPvtData.payloadSize]
        ELSE t.item,
      LAMBDA item :
        [q |-> IF item.dataLen < Len(item.pPubData)
               THEN openavbMediaQHeadUnlock(q, item)
               ELSE openavbMediaQHeadPush(q, item),
         op |-> IF item.dataLen < Len(item.pPubData) THEN "HeadUnlock" ELSE "HeadPush",
         written |-> IF t.dataValid THEN <<bytes>> ELSE <<>>,
         overflow |-> FALSE])

\* rx from the write to the head item on: the payload is appended unless the data
\* was dropped, and the item is pushed once full.  written holds the bytes written
\* (<<>> when none were), overflow whether they ran past the end of the item, op the
\* media-queue call that released the item.
RxStore(pPubMapInfo, pPvtData, q, t, bytes) ==
    Let(IF t.dataValid
        THEN [t.item EXCEPT !.pPubData = WriteAt(@, t.item.dataLen, bytes),
                            !.dataLen = @ + pPvtData.payloadSize]
        ELSE t.item,
      LAMBDA item :
        [q |-> IF item.dataLen < Len(item.pPubData)
               THEN openavbMediaQHeadUnlock(q, item)
               ELSE openavbMediaQHeadPush(q, item),
         op |-> IF item.dataLen < Len(item.pPubData) THEN "HeadUnlock" ELSE "HeadPush",
         written |-> IF t.dataValid THEN <<bytes>> ELSE <<>>,
         overflow |-> t.dataValid /\ t.item.dataLen + Len(bytes) > Len(t.item.pPubData)])

\* the four statistics counters of the redundancy: total, lost, needed and available,
\* needed and not available
RedundancyStats(pPvtData) ==
    <<pPvtData.trStatsTotalFrames, pPvtData.trStatsLostFrames,
      pPvtData.trStatsNeededAvailable, pPvtData.trStatsNeededNotAvailable>>

\* a report step that leaves the deadline where it was
RxReportKeepsDeadline(pPvtData, nowNS) ==
    IF pPvtData.report_seconds > 0 /\ nowNS > pPvtData.nextReportNS
    THEN [pvt |-> [pPvtData EXCEPT
                     !.trStatsTotalFrames = 0, !.trStatsLostFrames = 0,
                     !.trStatsNeededAvailable = 0, !.trStatsNeededNotAvailable = 0],
          reports |-> <<RedundancyStats(pPvtData)>>]
    ELSE [pvt |-> pPvtData, reports |-> <<>>]

\* a report step that leaves the count of lost frames as it was
RxReportKeepsLost(pPvtData, nowNS) ==
    IF pPvtData.report_seconds > 0 /\ nowNS > pPvtData.nextReportNS
    THEN [pvt |-> [pPvtData EXCEPT
                     !.trStatsTotalFrames = 0,
                     !.trStatsNeededAvailable = 0, !.trStatsNeededNotAvailable = 0,
                     !.nextReportNS =
                         IF nowNS > @ + pPvtData.report_seconds * NANOSECONDS_PER_SECOND
                         THEN nowNS + pPvtData.report_seconds * NANOSECONDS_PER_SECOND
                         ELSE @ + pPvtData.report_seconds * NANOSECONDS_PER_SECOND],
          reports |-> <<RedundancyStats(pPvtData)>>]
    ELSE [pvt |-> pPvtData, reports |-> <<>>]

\* the display of the statistics at the end of the redundancy step of rx, with the
\* clock at nowNS: the session after it and the counters reported
RxReport(pPvtData, nowNS) ==
    IF pPvtData.report_seconds > 0 /\ nowNS > pPvtData.nextReportNS
    THEN [pvt |-> [pPvtData EXCEPT
                     !.trStatsTotalFrames = 0, !.trStatsLostFrames = 0,
                     !.trStatsNeededAvailable = 0, !.trStatsNeededNotAvailable = 0,
                     !.nextReportNS =
                         IF nowNS > @ + pPvtData.report_seconds * NANOSECONDS_PER_SECOND
                         THEN nowNS + pPvtData.report_seconds * NANOSECONDS_PER_SECOND
                         ELSE @ + pPvtData.report_seconds * NANOSECONDS_PER_SECOND],
          reports |-> <<RedundancyStats(pPvtData)>>]
    ELSE [pvt |-> pPvtData, reports |-> <<>>]

\* the temporal redundancy step of rx: the second payload and its format are saved,
\* and the oldest saved frame, whose packet has now arrived, is discarded
RxRedundancy(pPvtData, pQueue, pStats, h, pData, nowNS) ==
    LET frameSize == pPvtData.temporalRedundantQueueFrameSize
    IN Let(PushBufferToCircularQueue(pQueue,
              Buf(ReadBytes(pData, TOTAL_HEADER_SIZE + h.payloadLen, h.payloadLen)),
              h.payloadLen),
         LAMBDA q1 :
       Let(IF h.payloadLen < frameSize
           THEN PushBufferToCircularQueue(q1, NULLBUF, frameSize - h.payloadLen) ELSE q1,
         LAMBDA q2 :
       Let(PushBufferToCircularQueue(pStats, Buf(<<h.incoming_aaf_format>>), 1),
         LAMBDA s1 :
       Let(RxReport([pPvtData EXCEPT !.trStatsTotalFrames = @ + 1], nowNS),
         LAMBDA rp :
           [queue |-> PullBufferFromCircularQueue(q2, FALSE, frameSize).q,
            stats |-> PullBufferFromCircularQueue(s1, TRUE, 1).q,
            pvt |-> rp.pvt, reports |-> rp.reports,
            below |-> /\ PushStaysBelow(pQueue, h.payloadLen)
                      /\ h.payloadLen < frameSize =>
                            PushStaysBelow(q1, frameSize - h.payloadLen)
                      /\ PushStaysBelow(pStats, 1)]))))

\* what rx returns and leaves when the header checks fail: the stream is muted
RxInvalid(pPvtData, pQueue, pStats, q) ==
    [ret |-> FALSE, pvt |-> [pPvtData EXCEPT !.dataValid = FALSE],
     queue |-> pQueue, stats |-> pStats, q |-> q,
     log |-> IF pPvtData.dataValid THEN <<"muted">> ELSE <<>>,
     valid |-> FALSE, headLock |-> FALSE, written |-> <<>>, overflow |-> FALSE,
     ops |-> <<>>, below |-> TRUE]

\* rx of a frame that passed the header checks, with the head item locked (t holds it
\* with its timestamp set)
RxValidItem(pPubMapInfo, pPvtData, pQueue, pStats, q, h, pData, t, log, nowNS) ==
    Let(RxStore(pPubMapInfo, pPvtData, q, t, RxPayload(pPvtData, h, pData)), LAMBDA st :
    Let(IF pPvtData.temporalRedundantOffsetUsec > 0
        THEN RxRedundancy([pPvtData EXCEPT !.mediaQItemSyncTS = t.sync],
                          pQueue, pStats, h, pData, nowNS)
        ELSE [queue |-> pQueue, stats |-> pStats,
              pvt |-> [pPvtData EXCEPT !.mediaQItemSyncTS = t.sync], below |-> TRUE,
              reports |-> <<>>],
      LAMBDA r :
        [ret |-> TRUE, pvt |-> r.pvt, queue |-> r.queue, stats |-> r.stats, q |-> st.q,
         log |-> log, valid |-> TRUE, headLock |-> TRUE,
         written |-> st.written, overflow |-> st.overflow,
         ops |-> <<"HeadLock", st.op>>, below |-> r.below, reports |-> r.reports]))

\* rx of a frame that passed the header checks: the stream is un-muted and the head of
\* the media queue locked
RxValid(pPubMapInfo, pPvtData, pQueue, pStats, q, h, pData, nowNS) ==
    LET log == IF pPvtData.dataValid THEN <<>> ELSE <<"un-muted">>
        pvt1 == [pPvtData EXCEPT !.dataValid = TRUE]
    IN Let(openavbMediaQHeadLock(q, pPubMapInfo.itemSize), LAMBDA head :
         IF head = <<>>
         THEN [ret |-> FALSE, pvt |-> pvt1, queue |-> pQueue, stats |-> pStats, q |-> q,
               log |-> log, valid |-> TRUE, headLock |-> TRUE,
               written |-> <<>>, overflow |-> FALSE, ops |-> <<"HeadLockNull">>,
               below |-> TRUE]
         ELSE RxValidItem(pPubMapInfo, pvt1, pQueue, pStats, q, h, pData,
                          RxItemTimestamp(pPubMapInfo, pvt1, h, head[1]), log, nowNS))

\* the error logs of the header checks of rx, in the order they are made: one for each
\* check the packet fails, and one for an event field that is not the session's, all
\* of them only while the stream is not muted
RxErrors(pPvtData, c, h) ==
    IF ~pPvtData.dataValid THEN <<>>
    ELSE SelectSeq(<<"length", "format", "rate", "channels", "bit_depth", "payload">>,
                   LAMBDA n : c[n])
         \o (IF h.event # pPvtData.aaf_event_field THEN <<"event">> ELSE <<>>)

\* the result r of rx with the error logs of the call: those of the header checks,
\* and "size" when the converter wrote another number of bytes than payloadSize; and
\* with no statistics reported when the call did not reach the redundancy step
RxLogged(r, pPvtData, errors, converted) ==
    [f \in DOMAIN r \cup {"errors", "reports"} |->
        IF f = "errors"
        THEN errors \o (IF converted /\ r.written # <<>>
                           /\ Len(r.written[1]) # pPvtData.payloadSize
                        THEN <<"size">> ELSE <<>>)
        ELSE IF f \in DOMAIN r THEN r[f] ELSE <<>>]

\* openavbMapAVTPAudioRxCB(pMediaQ, pData, dataLen): what the call returns (ret) and
\* leaves: the session, its two rings and the media queue.  log holds the mute
\* events logged, valid the local dataValid after the header checks, headLock whether
\* openavbMediaQHeadLock was called, ops the media-queue calls made ("HeadLockNull" is
\* a HeadLock that returned NULL), below whether every push to a ring stayed below the
\* ring's size, errors the error logs of the call, reports the statistics it displayed.
\* nowNS is what CLOCK_GETTIME64 returns during the call.
openavbMapAVTPAudioRxCB(pPubMapInfo, pPvtData, pQueue, pStats, q, pData, dataLen, nowNS) ==
    Let(RxFields(pData), LAMBDA h :
    Let(RxChecks(pPubMapInfo, pPvtData, h, dataLen), LAMBDA c :
        RxLogged(IF RxDataValid(c)
                 THEN RxValid(pPubMapInfo, RxAdapt(pPvtData, h, dataLen), pQueue, pStats,
                              q, h, pData, nowNS)
                 ELSE RxInvalid(RxAdapt(pPvtData, h, dataLen), pQueue, pStats, q),
                 pPvtData, RxErrors(pPvtData, c, h), RxConversionEnabled(pPvtData, h))))

(***************************************************************************)
(* Listener: openavbMapAVTPAudioRxLostCB.                                  *)
(***************************************************************************)
\* the size of the static scratch buffer s_audioBuffer
AudioBufferSize == 1500

\* whether rx_lost converts a saved frame of format dataFormat
LostConversion(pPvtData, dataFormat) ==
    /\ dataFormat # pPvtData.aaf_format
    /\ IsIntFormat(dataFormat) /\ IsIntFormat(pPvtData.aaf_format)

\* the recovery data of one lost packet, pulled from the redundancy queue: the queue
\* afterwards (q), the bytes written to the item (data), and whether the pull ran
\* past the end of the scratch buffer (overflow)
LostRecover(pPubMapInfo, pPvtData, pQueue, dataFormat) ==
    LET frameSize == pPvtData.temporalRedundantQueueFrameSize
    IN IF dataFormat # AAF_FORMAT_UNSPEC /\ LostConversion(pPvtData, dataFormat)
       THEN Let(PullBufferFromCircularQueue(pQueue, TRUE, frameSize), LAMBDA p :
                [q |-> p.q,
                 data |-> ConvertSamples(p.data, 0,
                             (6 - dataFormat) * pPubMapInfo.audioChannels
                               * pPubMapInfo.framesPerPacket,
                             6 - dataFormat, 6 - pPvtData.aaf_format),
                 overflow |-> frameSize > AudioBufferSize])
       ELSE Let(PullBufferFromCircularQueue(pQueue, TRUE, pPvtData.payloadSize), LAMBDA p :
                [q |-> IF pPvtData.payloadSize < frameSize
                       THEN PullBufferFromCircularQueue(p.q, FALSE,
                               frameSize - pPvtData.payloadSize).q
                       ELSE p.q,
                 data |-> p.data,
                 overflow |-> FALSE])

\* the statistics of one lost packet
LostStats(pPvtData, dataFormat) ==
    [pPvtData EXCEPT
       !.trStatsTotalFrames = @ + 1,
       !.trStatsLostFrames = @ + 1,
       !.trStatsNeededNotAvailable = IF dataFormat = AAF_FORMAT_UNSPEC THEN @ + 1 ELSE @,
       !.trStatsNeededAvailable = IF dataFormat = AAF_FORMAT_UNSPEC THEN @ ELSE @ + 1]

\* the rest of a pass of the loop of rx_lost once the recovery data r is there: the
\* item is filled and released, and the blank frame of the lost packet is queued
LostItemRecovered(pPubMapInfo, s, item, f, r) ==
    Let([item EXCEPT !.pAvtpTime = openavbAvtpTimeSetTimestampValid(@, FALSE),
                     !.pPubData = WriteAt(@, item.dataLen, r.data),
                     !.dataLen = @ + s.pvt.payloadSize],
      LAMBDA item1 :
        [pvt |-> LostStats(s.pvt, f.data[1]),
         queue |-> PushBufferToCircularQueue(r.q, NULLBUF,
                      s.pvt.temporalRedundantQueueFrameSize),
         stats |-> PushBufferToCircularQueue(f.q, Buf(<<AAF_FORMAT_UNSPEC>>), 1),
         q |-> IF item1.dataLen < Len(item1.pPubData)
               THEN openavbMediaQHeadUnlock(s.q, item1)
               ELSE openavbMediaQHeadPush(s.q, item1),
         written |-> s.written \o << <<r.data>> >>,
         ops |-> s.ops \o <<"HeadLock", IF item1.dataLen < Len(item1.pPubData)
                                        THEN "HeadUnlock" ELSE "HeadPush">>,
         below |-> /\ s.below
                   /\ PushStaysBelow(r.q, s.pvt.temporalRedundantQueueFrameSize)
                   /\ PushStaysBelow(f.q, 1),
         locked |-> s.locked + 1,
         overflow |-> s.overflow \/ r.overflow
                      \/ item.dataLen + Len(r.data) > Len(item.pPubData)])

\* one pass of the loop of rx_lost with the head item locked: s is the state of the
\* call so far, item the head item, f the pull of the format byte
LostItem(pPubMapInfo, s, item, f) ==
    Let(LostRecover(pPubMapInfo, s.pvt, s.queue, f.data[1]), LAMBDA r :
        LostItemRecovered(pPubMapInfo, s, item, f, r))

\* the loop of rx_lost: nothing is done for a lost packet when the head of the media
\* queue cannot be locked
RECURSIVE LostLoop(_, _, _)
LostLoop(pPubMapInfo, s, numLost) ==
    IF numLost = 0 THEN s
    ELSE Let(openavbMediaQHeadLock(s.q, pPubMapInfo.itemSize), LAMBDA head :
           IF head = <<>>
           THEN LostLoop(pPubMapInfo,
                         [s EXCEPT !.written = @ \o << <<>> >>,
                                   !.ops = @ \o <<"HeadLockNull">>], numLost - 1)
           ELSE Let(LostItem(pPubMapInfo, s, head[1],
                             PullBufferFromCircularQueue(s.stats, TRUE, 1)),
                    LAMBDA s1 : LostLoop(pPubMapInfo, s1, numLost - 1)))

LostActiveWhenMuted(pPvtData) == pPvtData.temporalRedundantOffsetUsec > 0

\* whether rx_lost does anything: redundancy is enabled and the stream is not muted
LostActive(pPvtData) ==
    pPvtData.temporalRedundantOffsetUsec > 0 /\ pPvtData.dataValid

\* openavbMapAVTPAudioRxLostCB(pMediaQ, numLost): it returns FALSE always; what it
\* leaves: the session, its rings and the media queue; written holds, for each lost
\* packet, the recovery data appended for it (<<data>>, or <<>> when none was),
\* locked is the number of head items locked, and ops holds the media-queue calls made
openavbMapAVTPAudioRxLostCB(pPubMapInfo, pPvtData, pQueue, pStats, q, numLost) ==
    Let([pvt |-> pPvtData, queue |-> pQueue, stats |-> pStats, q |-> q,
         written |-> <<>>, ops |-> <<>>, below |-> TRUE, locked |-> 0,
         overflow |-> FALSE],
      LAMBDA s :
        IF LostActive(pPvtData)
        THEN LostLoop(pPubMapInfo, s, numLost)
        ELSE [s EXCEPT !.written = [i \in 1..numLost |-> <<>>]])

(***************************************************************************)
(* Initialisation callbacks.                                               *)
(***************************************************************************)
GenInitPrefillOneMore(pPvtData) ==
    pPvtData.temporalRedundantQueueFrameSize * (pPvtData.temporalRedundantOffsetPackets + 1)

\* the bytes of empty data gen_init queues, so that the first audio pulled is silence
GenInitPrefill(pPvtData) ==
    pPvtData.temporalRedundantQueueFrameSize * pPvtData.temporalRedundantOffsetPackets

GenInitQueueSizeOneFrameSpare(pPvtData) ==
    pPvtData.temporalRedundantQueueFrameSize * (pPvtData.temporalRedundantOffsetPackets + 1)

\* the size of the redundancy queue: big enough for the frames delayed and two more
GenInitQueueSize(pPvtData) ==
    pPvtData.temporalRedundantQueueFrameSize * (pPvtData.temporalRedundantOffsetPackets + 2)

\* gen_init after the sizes are known (c holds them): the redundancy queue is set up
\* and dataValid set, unless the offset is refused or the allocation fails
GenInitQueue(c, pQueue, allocOk) ==
    IF c.pvt.temporalRedundantOffsetUsec > 0 /\ c.pvt.temporalRedundantOffsetSamples > 0
    THEN IF c.pvt.temporalRedundantOffsetSamples % c.pub.framesPerPacket # 0
         THEN [pub |-> c.pub, pvt |-> c.pvt, queue |-> pQueue]
         ELSE IF ~allocOk
         THEN [pub |-> c.pub, pvt |-> c.pvt,
               queue |-> AllocateCircularQueue(FreeCircularQueue,
                            GenInitQueueSize(c.pvt), FALSE)]
         ELSE [pub |-> c.pub, pvt |-> [c.pvt EXCEPT !.dataValid = TRUE],
               queue |-> PushBufferToCircularQueue(
                            AllocateCircularQueue(FreeCircularQueue,
                               GenInitQueueSize(c.pvt), TRUE),
                            NULLBUF, GenInitPrefill(c.pvt))]
    ELSE [pub |-> c.pub, pvt |-> [c.pvt EXCEPT !.dataValid = TRUE], queue |-> pQueue]

\* openavbMapAVTPAudioGenInitCB: the session and its redundancy queue afterwards;
\* allocOk is whether malloc gives the queue its storage
openavbMapAVTPAudioGenInitCB(pPubMapInfo, pPvtData, pQueue, allocOk) ==
    Let(x_calculateSizes(pPubMapInfo, pPvtData), LAMBDA c : GenInitQueue(c, pQueue, allocOk))

\* a max_data_size that returns the sum without the cut to 16 bits
MaxDataSizeWide(pPvtData) ==
    (IF pPvtData.isTalker THEN pPvtData.payloadSizeMaxTalker
     ELSE pPvtData.payloadSizeMaxListener) + TOTAL_HEADER_SIZE

\* a max_data_size that returns the talker's size to every session
MaxDataSizeTalkerOnly(pPvtData) ==
    (pPvtData.payloadSizeMaxTalker + TOTAL_HEADER_SIZE) % 65536

\* openavbMapAVTPAudioMaxDataSizeCB: the largest frame payload, as the U16 it returns
openavbMapAVTPAudioMaxDataSizeCB(pPvtData) ==
    ((IF pPvtData.isTalker THEN pPvtData.payloadSizeMaxTalker
      ELSE pPvtData.payloadSizeMaxListener) + TOTAL_HEADER_SIZE) % 65536

\* openavbMapAVTPAudioTxInitCB
openavbMapAVTPAudioTxInitCB(pPvtData) == [pPvtData EXCEPT !.isTalker = TRUE]

\* openavbMapAVTPAudioRxInitCB: the session and its statistics ring afterwards;
\* allocOk is whether malloc gives the ring its storage
openavbMapAVTPAudioRxInitCB(pPvtData, pStats, allocOk) ==
    IF pPvtData.temporalRedundantOffsetUsec > 0
    THEN [pvt |-> [pPvtData EXCEPT !.isTalker = FALSE,
                                   !.trStatsTotalFrames = 0, !.trStatsLostFrames = 0,
                                   !.trStatsNeededAvailable = 0,
                                   !.trStatsNeededNotAvailable = 0],
          stats |-> PushBufferToCircularQueue(
                       AllocateCircularQueue(FreeCircularQueue,
                          pPvtData.temporalRedundantOffsetPackets + 10, allocOk),
                       NULLBUF, pPvtData.temporalRedundantOffsetPackets)]
    ELSE [pvt |-> [pPvtData EXCEPT !.isTalker = FALSE], stats |-> pStats]

(***************************************************************************)
(* Configurations and inputs of the model.                                 *)
(***************************************************************************)
Config(audioRate, audioType, audioBitDepth, txInterval, packingFactor, sparseMode, offsetUsec) ==
    [audioRate |-> audioRate, audioType |-> audioType, audioBitDepth |-> audioBitDepth,
     audioChannels |-> 1, txInterval |-> txInterval, packingFactor |-> packingFactor,
     sparseMode |-> sparseMode, temporalRedundantOffsetUsec |-> offsetUsec,
     report_seconds |-> 0]

\* Talker sessions: plain, packed and sparse, redundant with an offset of one and of two
\* packets (with and without frame padding), an offset below one sample, an offset that
\* is no whole number of packets, a bit depth the size calculator does not know, and
\* packed without sparse mode.
TalkerConfigs ==
    { Config(8000, "int", 16, 8000, 1, TS_SPARSE_MODE_DISABLED, 0),
      Config(8000, "int", 16, 8000, 2, TS_SPARSE_MODE_ENABLED, 0),
      Config(8000, "int", 16, 8000, 1, TS_SPARSE_MODE_DISABLED, 125),
      Config(8000, "int", 24, 8000, 1, TS_SPARSE_MODE_ENABLED, 250),
      Config(8000, "float", 32, 8000, 1, TS_SPARSE_MODE_DISABLED, 125),
      Config(16000, "int", 16, 8000, 1, TS_SPARSE_MODE_DISABLED, 125),
      Config(8000, "int", 16, 8000, 1, TS_SPARSE_MODE_DISABLED, 63),
      Config(16000, "int", 16, 8000, 1, TS_SPARSE_MODE_DISABLED, 63),
      Config(8000, "int", 20, 8000, 1, TS_SPARSE_MODE_ENABLED, 0),
      Config(8000, "int", 16, 8000, 2, TS_SPARSE_MODE_DISABLED, 0) }

\* the session after openavbMapAVTPAudioInitialize and the configuration callbacks
SessionInit(c) ==
    /\ pub = PubMapInfo(c.audioRate, c.audioType, c.audioBitDepth, c.audioChannels)
    /\ pvt = CfgCB(Initialize(2), c)
    /\ temporalRedundantQueue = FreeCircularQueue
    /\ trStatsEntryTypeQueue = FreeCircularQueue
    /\ mediaQ = [items |-> <<>>, head |-> <<>>]
    /\ phase = "created"
    /\ last = [op |-> "init"]
    /\ hist = [packets |-> <<>>, fed |-> 0, allMultiple |-> TRUE, nTx |-> 0, nPush |-> 0]

InitTx == \E c \in TalkerConfigs : SessionInit(c)

GenInit ==
    /\ phase = "created"
    /\ \E allocOk \in BOOLEAN :
         \E r \in {openavbMapAVTPAudioGenInitCB(pub, pvt, temporalRedundantQueue, allocOk)} :
            /\ pub' = r.pub
            /\ pvt' = r.pvt
            /\ temporalRedundantQueue' = r.queue
            /\ last' = [op |-> "gen_init"]
    /\ phase' = "gen"
    /\ UNCHANGED <<trStatsEntryTypeQueue, mediaQ, hist>>

TxInit ==
    /\ phase = "gen"
    /\ "packets" \in DOMAIN hist
    /\ pvt' = openavbMapAVTPAudioTxInitCB(pvt)
    /\ phase' = "talker"
    /\ last' = [op |-> "tx_init"]
    /\ UNCHANGED <<pub, temporalRedundantQueue, trStatsEntryTypeQueue, mediaQ, hist>>

\* the items the interface module queues, as <<length, timestamp valid, uncertain>>:
\* one packet of audio in each timestamp state, a full item, an item short of one
\* packet, an empty item
PushKinds ==
    { k \in ({pvt.payloadSize} \X BOOLEAN \X BOOLEAN)
            \cup {<<pub.itemSize, TRUE, FALSE>>, <<pvt.payloadSize - 1, TRUE, FALSE>>,
                  <<0, FALSE, FALSE>>} :
        k[1] >= 0 /\ k[1] <= pub.itemSize /\ (k[3] => k[2]) }

\* the time of the n-th item the interface module queues; the second is 1000 ns before
\* the 32-bit timestamp wraps
PushTime(n) == IF n = 2 THEN -1000 ELSE 5000 * n

\* the interface module queues one more item of audio
IntfPush ==
    /\ phase = "talker"
    /\ hist.nPush < MaxPush
    /\ Len(mediaQ.items) < MaxItems
    /\ \E k \in PushKinds :
         /\ mediaQ' = [mediaQ EXCEPT !.items =
                @ \o <<MediaQItem(AudioBytes(hist.fed, k[1]),
                                  AvtpTime(PushTime(hist.nPush + 1), k[2], k[3]))>>]
         /\ hist' = [hist EXCEPT !.fed = @ + k[1], !.nPush = @ + 1,
                                 !.allMultiple = @ /\ (k[1] = 0 \/ (pvt.payloadSize > 0
                                                       /\ k[1] % pvt.payloadSize = 0))]
    /\ last' = [op |-> "push"]
    /\ UNCHANGED <<pub, pvt, temporalRedundantQueue, trStatsEntryTypeQueue, phase>>

\* the frame lengths the AVTP layer passes to tx: shorter than the header, one byte
\* short of what the session needs, and just enough
TxLengths ==
    LET need == TOTAL_HEADER_SIZE
                + (IF pvt.temporalRedundantOffsetUsec > 0 THEN 2 ELSE 1) * pvt.payloadSize
    IN { 10, need - 1, need }

\* the frame buffer is always large enough for the header and two payloads, whatever
\* length the caller states
TxBufferSize == TOTAL_HEADER_SIZE + 2 * pvt.payloadSize

\* the AVTP layer numbers the packets it sends: the sequence number it writes before
\* tx advances with every packet that was ready
TxSeqNum == (7 + Len(hist.packets)) % 256

\* what an earlier use left in the bytes of the frame buffer
TxFills == {0, 255}

\* the AVTP layer calls tx for one observation interval
TxCall ==
    /\ phase = "talker"
    /\ hist.nTx < MaxTx
    /\ \E seq \in {TxSeqNum}, fill \in TxFills, dataLen \in TxLengths :
         \E r \in {openavbMapAVTPAudioTxCB(pub, pvt, temporalRedundantQueue, mediaQ,
                                           TxBufferIn(seq, fill, TxBufferSize), dataLen)} :
            /\ mediaQ' = [mediaQ EXCEPT !.items = r.items]
            /\ temporalRedundantQueue' = r.queue
            /\ last' = [op |-> "tx", ret |-> r.ret, seq |-> seq, fill |-> fill,
                        lenIn |-> dataLen, lenOut |-> r.dataLen, buf |-> r.buf,
                        ops |-> r.ops, src |-> r.src, below |-> r.below,
                        bufIn |-> TxBufferIn(seq, fill, TxBufferSize),
                        removed |-> Len(mediaQ.items) - Len(r.items),
                        queueSame |-> r.queue = temporalRedundantQueue,
                        itemsSame |-> r.items = mediaQ.items]
            /\ hist' = [hist EXCEPT
                  !.nTx = @ + 1,
                  !.packets = IF r.ret = "PACKET_READY"
                              THEN @ \o <<[first |-> Slice(r.buf, TOTAL_HEADER_SIZE, pvt.payloadSize),
                                           second |-> Slice(r.buf, TOTAL_HEADER_SIZE + pvt.payloadSize,
                                                            pvt.payloadSize)]>>
                              ELSE @]
    /\ UNCHANGED <<pub, pvt, trStatsEntryTypeQueue, phase>>

NextTx == GenInit \/ TxInit \/ IntfPush \/ TxCall

SpecTx == InitTx /\ [][NextTx]_vars

(***************************************************************************)
(* The listener and the stream it receives.  The stream is what a talker   *)
(* session (the peer) sends: packet k is the k-th packet its tx reports    *)
(* ready when it is fed one packet of audio per interval.  Each packet of  *)
(* the stream reaches the listener as sent, reaches it damaged, or is      *)
(* lost.                                                                   *)
(***************************************************************************)
\* the peer's session after its configuration, gen_init and tx_init
PeerSession(c) ==
    openavbMapAVTPAudioGenInitCB(
        PubMapInfo(c.audioRate, c.audioType, c.audioBitDepth, c.audioChannels),
        openavbMapAVTPAudioTxInitCB(CfgCB(Initialize(2), c)), FreeCircularQueue, TRUE)

\* the sequence number the peer's AVTP layer gives packet k
PeerSeqNum(k) == (6 + k) % 256

\* the audio of the peer's k-th interval
PeerAudio(peer, k) == AudioBytes((k - 1) * peer.pvt.payloadSize, peer.pvt.payloadSize)

\* the peer after k packets: its redundancy queue, and packet k (buf, dataLen)
RECURSIVE PeerRun(_, _)
PeerRun(peer, k) ==
    IF k = 0 THEN [queue |-> peer.queue, buf |-> <<>>, dataLen |-> 0]
    ELSE Let(PeerRun(peer, k - 1), LAMBDA s :
         Let(openavbMapAVTPAudioTxCB(peer.pub, peer.pvt, s.queue,
                [items |-> <<MediaQItem(PeerAudio(peer, k), AvtpTime(5000 * k, TRUE, FALSE))>>,
                 head |-> <<>>],
                TxBufferIn(PeerSeqNum(k), 0, TOTAL_HEADER_SIZE + 2 * peer.pvt.payloadSize),
                TOTAL_HEADER_SIZE + 2 * peer.pvt.payloadSize),
           LAMBDA r : [queue |-> r.queue, buf |-> r.buf, dataLen |-> r.dataLen]))

\* the ways a frame reaches rx with a header that fails one check: the stated length
\* exceeds the frame, or the format, the rate, the channel count, the bit depth or the
\* payload size is not the listener's
BadKinds == {"length", "format", "rate", "channels", "bit_depth", "payload"}

\* "short" is a frame cut off before the end of the header (the rest of the receive
\* buffer still holds the bytes of the frame as sent)
RxKinds == {"good", "short"} \cup BadKinds

\* the frames of streams that are not the listener's peer's: "event" has the event
\* field of a mono layout, "stream" another rate and channel count, and "ragged" is a
\* frame of two payloads whose length is no whole number of samples (the last sample
\* is short of one byte)
ForeignKinds == {"good", "event", "reserved", "stream", "ragged"}

\* the payload length of the ragged frame made of a frame with payloads of payloadLen
\* bytes of format
RaggedLen(payloadLen, format) ==
    payloadLen + (IF IsIntFormat(format) THEN 6 - format ELSE 4) - 1

\* packet p (buf, dataLen) as it reaches a listener with session data pPvtData
Damage(kind, p, pPvtData) ==
    LET payloadLen == BE16(p.buf, HIDX_STREAM_DATA_LEN16)
        raggedLen == RaggedLen(payloadLen, p.buf[17])
        \* the length of a payload of one sample less
        oneLess == payloadLen - (p.buf[20] \div 8)
    IN CASE kind = "good" -> p
         [] kind = "short" -> [p EXCEPT !.dataLen = ShortFrameLen]
         [] kind = "length" -> [p EXCEPT !.dataLen = TOTAL_HEADER_SIZE + payloadLen - 1]
         [] kind = "format" ->
              [p EXCEPT !.buf[17] = IF IsIntFormat(pPvtData.aaf_format)
                                    THEN AAF_FORMAT_FLOAT_32 ELSE AAF_FORMAT_INT_32]
         [] kind = "rate" ->
              [p EXCEPT !.buf[18] = ((pPvtData.aaf_rate + 1) % 16) * 16 + (@ % 16)]
         [] kind = "channels" -> [p EXCEPT !.buf[19] = (@ + 1) % 256]
         [] kind = "bit_depth" -> [p EXCEPT !.buf[20] = 0]
         [] kind = "payload" ->
              [p EXCEPT !.buf = WriteAt(@, HIDX_STREAM_DATA_LEN16,
                                        <<(oneLess \div 256) % 256, oneLess % 256>>)]
         [] kind = "event" -> [p EXCEPT !.buf[23] = (@ \div 16) * 16 + 1]
         [] kind = "reserved" -> [p EXCEPT !.buf[24] = (@ \div 16) * 16 + 1]
         [] kind = "stream" ->
              [p EXCEPT !.buf[18] = ((pPvtData.aaf_rate + 1) % 16) * 16 + (@ % 16),
                        !.buf[19] = (@ + 1) % 256]
         [] kind = "ragged" ->
              [p EXCEPT
                 !.buf = WriteAt(SubSeq(@, 1, TOTAL_HEADER_SIZE), HIDX_STREAM_DATA_LEN16,
                                 <<(raggedLen \div 256) % 256, raggedLen % 256>>)
                         \o [i \in 1..(2 * raggedLen) |->
                               IF TOTAL_HEADER_SIZE + i <= Len(p.buf)
                               THEN p.buf[TOTAL_HEADER_SIZE + i] ELSE 7],
                 !.dataLen = TOTAL_HEADER_SIZE + 2 * raggedLen]

\* Listener sessions with their peers: plain; redundant with an offset of one packet
\* and of two; a 16-bit listener of a 24-bit redundant stream; items of two packets
\* fed by a sparse stream; an offset that is no whole number of packets; a 32-bit
\* listener of a 16-bit stream of two samples a packet; items of two packets with
\* redundancy.
ListenerConfigs ==
    { <<Config(8000, "int", 16, 8000, 1, TS_SPARSE_MODE_DISABLED, 0),
        Config(8000, "int", 16, 8000, 1, TS_SPARSE_MODE_DISABLED, 0)>>,
      <<Config(8000, "float", 32, 8000, 1, TS_SPARSE_MODE_DISABLED, 125),
        Config(8000, "float", 32, 8000, 1, TS_SPARSE_MODE_DISABLED, 125)>>,
      <<Config(8000, "int", 16, 8000, 1, TS_SPARSE_MODE_DISABLED, 250),
        Config(8000, "int", 16, 8000, 1, TS_SPARSE_MODE_DISABLED, 250)>>,
      <<Config(8000, "int", 16, 8000, 1, TS_SPARSE_MODE_DISABLED, 125),
        Config(8000, "int", 24, 8000, 1, TS_SPARSE_MODE_DISABLED, 125)>>,
      <<Config(8000, "int", 16, 8000, 2, TS_SPARSE_MODE_DISABLED, 0),
        Config(8000, "int", 16, 8000, 1, TS_SPARSE_MODE_ENABLED, 0)>>,
      <<Config(16000, "int", 16, 8000, 1, TS_SPARSE_MODE_DISABLED, 63),
        Config(16000, "int", 16, 8000, 1, TS_SPARSE_MODE_DISABLED, 0)>>,
      <<Config(16000, "int", 32, 8000, 1, TS_SPARSE_MODE_DISABLED, 0),
        Config(16000, "int", 16, 8000, 1, TS_SPARSE_MODE_DISABLED, 0)>>,
      <<Config(8000, "int", 16, 8000, 2, TS_SPARSE_MODE_DISABLED, 125),
        Config(8000, "int", 16, 8000, 1, TS_SPARSE_MODE_DISABLED, 125)>> }

\* the listener of c[1] before gen_init, with the stream of c[2] ahead of it: stream
\* packets in all, of which at most bad reach it other than as sent, in the ways kinds
ListenerInit(c, stream, bad, kinds) ==
        /\ pub = PubMapInfo(c[1].audioRate, c[1].audioType, c[1].audioBitDepth,
                            c[1].audioChannels)
        /\ pvt = CfgCB(Initialize(2), c[1])
        /\ temporalRedundantQueue = FreeCircularQueue
        /\ trStatsEntryTypeQueue = FreeCircularQueue
        /\ mediaQ = [items |-> <<>>, head |-> <<>>]
        /\ phase = "created"
        /\ last = [op |-> "init"]
        /\ hist = [peer |-> c[2], maxStream |-> stream, maxBad |-> bad, kinds |-> kinds,
                   pos |-> 0, nBad |-> 0, slots |-> <<>>, log |-> <<>>, read |-> <<>>,
                   now |-> 0]

\* a listener of a stream in which packets are damaged or lost
InitRx == \E c \in ListenerConfigs : ListenerInit(c, MaxRx, MaxBad, RxKinds)

\* a listener with temporal redundancy, of a stream in which packets are lost
InitConceal ==
    \E c \in {x \in ListenerConfigs : x[1].temporalRedundantOffsetUsec >= 125} :
        ListenerInit(c, MaxStream, 0, RxKinds)

\* Listeners with the streams whose frames are mixed with foreign ones: plain; a 16-bit
\* listener of a redundant 32-bit stream; a 32-bit listener of a 16-bit stream of two
\* samples a packet; items of two packets fed by a sparse stream; a sparse listener of
\* a stream that is not sparse.
ForeignConfigs ==
    { <<Config(8000, "int", 16, 8000, 1, TS_SPARSE_MODE_DISABLED, 0),
        Config(8000, "int", 16, 8000, 1, TS_SPARSE_MODE_DISABLED, 0)>>,
      <<Config(8000, "int", 16, 8000, 1, TS_SPARSE_MODE_DISABLED, 125),
        Config(8000, "int", 32, 8000, 1, TS_SPARSE_MODE_DISABLED, 125)>>,
      <<Config(16000, "int", 32, 8000, 1, TS_SPARSE_MODE_DISABLED, 0),
        Config(16000, "int", 16, 8000, 1, TS_SPARSE_MODE_DISABLED, 0)>>,
      <<Config(8000, "int", 16, 8000, 2, TS_SPARSE_MODE_DISABLED, 0),
        Config(8000, "int", 16, 8000, 1, TS_SPARSE_MODE_ENABLED, 0)>>,
      <<Config(8000, "int", 16, 8000, 1, TS_SPARSE_MODE_ENABLED, 0),
        Config(8000, "int", 16, 8000, 1, TS_SPARSE_MODE_DISABLED, 0)>> }

\* a listener with temporal redundancy that reports its statistics every second
ReportConfigs ==
    { <<[Config(8000, "int", 16, 8000, 1, TS_SPARSE_MODE_DISABLED, 125)
           EXCEPT !.report_seconds = 1],
        Config(8000, "int", 16, 8000, 1, TS_SPARSE_MODE_DISABLED, 125)>> }

InitReport == \E c \in ReportConfigs : ListenerInit(c, MaxRx, 0, {"good"})

\* the readings of the clock: the start, half a second, one second and just after
ClockValues ==
    {0, NANOSECONDS_PER_SECOND \div 2, NANOSECONDS_PER_SECOND, NANOSECONDS_PER_SECOND + 1}

\* the clock during the next rx call: it does not run backwards, and only a session
\* that reports reads it
RxClock ==
    IF pvt.report_seconds > 0 THEN {n \in ClockValues : n >= hist.now} ELSE {hist.now}

\* a listener of a stream into which frames of other streams are mixed
InitForeign == \E c \in ForeignConfigs : ListenerInit(c, MaxRx, MaxBad, ForeignKinds)

\* the session has not been ended by a write or read through a NULL queue pointer
Alive == ~temporalRedundantQueue.fault /\ ~trStatsEntryTypeQueue.fault

RxInit ==
    /\ phase = "gen"
    /\ "peer" \in DOMAIN hist
    /\ \E allocOk \in BOOLEAN :
         \E r \in {openavbMapAVTPAudioRxInitCB(pvt, trStatsEntryTypeQueue, allocOk)} :
            /\ pvt' = r.pvt
            /\ trStatsEntryTypeQueue' = r.stats
            /\ last' = [op |-> "rx_init"]
    /\ phase' = "listener"
    /\ UNCHANGED <<pub, temporalRedundantQueue, mediaQ, hist>>

\* the AVTP layer delivers the next packet of the stream
RxCall ==
    /\ phase = "listener" /\ Alive
    /\ hist.pos < hist.maxStream
    /\ \E sent \in {PeerRun(PeerSession(hist.peer), hist.pos + 1)}, kind \in hist.kinds,
          nowNS \in RxClock :
         /\ kind # "good" => hist.nBad < hist.maxBad
         /\ \E p \in {Damage(kind, sent, pvt)} :
            \E r \in {openavbMapAVTPAudioRxCB(pub, pvt, temporalRedundantQueue,
                                              trStatsEntryTypeQueue, mediaQ,
                                              p.buf, p.dataLen, nowNS)} :
              /\ pvt' = r.pvt
              /\ temporalRedundantQueue' = r.queue
              /\ trStatsEntryTypeQueue' = r.stats
              /\ mediaQ' = r.q
              /\ last' = [op |-> "rx", kind |-> kind, ret |-> r.ret, valid |-> r.valid,
                          headLock |-> r.headLock, qSame |-> r.q = mediaQ,
                          dataLen |-> p.dataLen,
                          payloadLen |-> BE16(p.buf, HIDX_STREAM_DATA_LEN16),
                          wasValid |-> pvt.dataValid, log |-> r.log,
                          wasRedundant |-> pvt.temporalRedundantOffsetUsec > 0,
                          tv |-> RxFields(p.buf).tv, ops |-> r.ops, below |-> r.below,
                          errors |-> r.errors,
                          nowNS |-> nowNS, reports |-> r.reports,
                          wasSparse |-> pvt.sparseMode = TS_SPARSE_MODE_ENABLED,
                          deadline |-> pvt.nextReportNS,
                          header |-> SubSeq(p.buf, 1, TOTAL_HEADER_SIZE),
                          wasSync |-> pvt.mediaQItemSyncTS,
                          overflow |-> r.overflow,
                          inFormat |-> p.buf[17],
                          payload |-> ReadBytes(p.buf, TOTAL_HEADER_SIZE,
                                                BE16(p.buf, HIDX_STREAM_DATA_LEN16)),
                          written |-> r.written,
                          itemLenBefore |-> IF mediaQ.head = <<>> THEN 0
                                            ELSE mediaQ.head[1].dataLen,
                          itemLenAfter |-> IF r.q.head # <<>> THEN r.q.head[1].dataLen
                                           ELSE IF r.q.items # <<>>
                                           THEN r.q.items[Len(r.q.items)].dataLen
                                           ELSE 0]
              /\ hist' = [hist EXCEPT
                    !.pos = @ + 1, !.now = nowNS,
                    !.nBad = IF kind = "good" THEN @ ELSE @ + 1,
                    !.log = @ \o r.log,
                    !.slots = @ \o <<[kind |-> kind, ret |-> r.ret, written |-> r.written,
                                      tv |-> RxFields(p.buf).tv,
                                      second |-> ReadBytes(p.buf,
                                          TOTAL_HEADER_SIZE + pvt.payloadSize,
                                          pvt.payloadSize),
                                      redundant |-> r.pvt.temporalRedundantOffsetUsec > 0]>>]
    /\ UNCHANGED <<pub, phase>>

\* the AVTP layer reports packets of the stream lost
RxLost ==
    /\ phase = "listener" /\ Alive
    /\ \E numLost \in 1..MaxLost :
         /\ hist.pos + numLost <= hist.maxStream
         /\ \E r \in {openavbMapAVTPAudioRxLostCB(pub, pvt, temporalRedundantQueue,
                                                  trStatsEntryTypeQueue, mediaQ, numLost)} :
              /\ pvt' = r.pvt
              /\ temporalRedundantQueue' = r.queue
              /\ trStatsEntryTypeQueue' = r.stats
              /\ mediaQ' = r.q
              /\ last' = [op |-> "rx_lost", numLost |-> numLost, locked |-> r.locked,
                          written |-> r.written, overflow |-> r.overflow,
                          ops |-> r.ops, below |-> r.below,
                          wasRedundant |-> pvt.temporalRedundantOffsetUsec > 0,
                          wasValid |-> pvt.dataValid,
                          statsBefore |-> RedundancyStats(pvt),
                          same |-> /\ r.q = mediaQ
                                   /\ r.queue = temporalRedundantQueue
                                   /\ r.stats = trStatsEntryTypeQueue]
              /\ hist' = [hist EXCEPT
                    !.pos = @ + numLost,
                    !.slots = @ \o [i \in 1..numLost |->
                                      [kind |-> "lost", ret |-> FALSE, tv |-> FALSE,
                                       written |-> r.written[i],
                                       second |-> <<>>,
                                       redundant |-> r.pvt.temporalRedundantOffsetUsec > 0]]]
    /\ UNCHANGED <<pub, phase>>

\* the data of items, in order
RECURSIVE ItemData(_)
ItemData(items) ==
    IF items = <<>> THEN <<>>
    ELSE SubSeq(Head(items).pPubData, 1, Head(items).dataLen) \o ItemData(Tail(items))

\* the interface module, which had let the media queue fill up, reads all of it
IntfPull ==
    /\ phase = "listener" /\ Alive
    /\ Len(mediaQ.items) = MaxItems
    /\ mediaQ' = [mediaQ EXCEPT !.items = <<>>]
    /\ last' = [op |-> "pull"]
    /\ hist' = [hist EXCEPT !.read = @ \o ItemData(mediaQ.items)]
    /\ UNCHANGED <<pub, pvt, temporalRedundantQueue, trStatsEntryTypeQueue, phase>>

NextRx == GenInit \/ RxInit \/ RxCall \/ RxLost \/ IntfPull

SpecRx == InitRx /\ [][NextRx]_vars

SpecConceal == InitConceal /\ [][NextRx]_vars

SpecForeign == InitForeign /\ [][NextRx]_vars

SpecReport == InitReport /\ [][NextRx]_vars

(***************************************************************************)
(* Properties of the talker.                                               *)
(***************************************************************************)
Redundant == pvt.temporalRedundantOffsetUsec > 0

\* the last callback was tx and returned ret
TxReturned(ret) == last.op = "tx" /\ last.ret = ret

\* the slot of a packet that holds the audio taken from the media queue for it
LiveSlot(p) == IF Redundant THEN p.second ELSE p.first

\* the frame length a packet of this session needs
TxRoomNeeded == TOTAL_HEADER_SIZE + (IF Redundant THEN 2 ELSE 1) * pvt.payloadSize

\* C1: with redundancy on and P = temporalRedundantOffsetPackets >= 1, the first slot of
\* the (k+P)-th packet tx reported ready equals the second slot of the k-th, and the
\* first slot of each of the first P packets is all zero.
C1_RedundantPayloadDelay ==
    (Redundant /\ pvt.temporalRedundantOffsetPackets >= 1) =>
        \A n \in 1..Len(hist.packets) :
            hist.packets[n].first =
                IF n <= pvt.temporalRedundantOffsetPackets
                THEN Zeros(pvt.payloadSize)
                ELSE hist.packets[n - pvt.temporalRedundantOffsetPackets].second

\* three packets were ready with P = 2: two start with silence, the third with the
\* audio the first carried in its second slot
C1_Witness ==
    /\ Redundant /\ pvt.temporalRedundantOffsetPackets = 2
    /\ Len(hist.packets) = 3
    /\ hist.packets[1].second # Zeros(pvt.payloadSize)
    /\ hist.packets[3].first = hist.packets[1].second
    /\ hist.packets[2].first = Zeros(pvt.payloadSize)

\* C3: when every queued item's dataLen is a multiple of payloadSize, the live slot of
\* the n-th ready packet holds bytes [(n-1)*payloadSize, n*payloadSize) of the item data
\* in FIFO order, and tx removes an item with TailPull exactly when its readIdx has
\* reached dataLen and otherwise leaves it with TailUnlock.
C3_PayloadOrder ==
    hist.allMultiple =>
        /\ \A n \in 1..Len(hist.packets) :
              LiveSlot(hist.packets[n])
                = AudioBytes((n - 1) * pvt.payloadSize, pvt.payloadSize)
        /\ last.op = "tx" =>
              /\ \A i \in 1..Len(last.src) :
                    /\ last.src[i].op \in {"TailPull", "TailUnlock"}
                    /\ last.src[i].op = "TailPull"
                         <=> last.src[i].readIdx >= last.src[i].item.dataLen
              /\ last.removed
                   = Cardinality({i \in 1..Len(last.src) : last.src[i].op = "TailPull"})

\* an item of two packets was sent in two packets: unlocked after the first, pulled
\* after the second
C3_Witness ==
    /\ hist.allMultiple /\ TxReturned("PACKET_READY")
    /\ Len(hist.packets) = 2
    /\ Len(last.src) = 1
    /\ last.src[1].item.readIdx = pvt.payloadSize
    /\ last.src[1].item.dataLen = 2 * pvt.payloadSize
    /\ last.src[1].op = "TailPull" /\ last.removed = 1

\* C4: every packet tx reports ready, in every configuration, holds payloadSize in bytes
\* 20..21 (big-endian), the format code in byte 16 and the rate code in bits 23:20 of
\* the word at offset 16.
C4_HeaderFields ==
    TxReturned("PACKET_READY") =>
        /\ BE16(last.buf, HIDX_STREAM_DATA_LEN16) = pvt.payloadSize
        /\ last.buf[17] = pvt.aaf_format
        /\ last.buf[18] \div 16 = pvt.aaf_rate

\* C4 holds of every session whose payloadSize is not zero
C4_HeaderFieldsConfigured == pvt.payloadSize > 0 => C4_HeaderFields

\* C5: in sparse mode a ready packet whose sequence number is no multiple of 8 has a
\* zero timestamp and tv = tu = 0; one whose sequence number is a multiple of 8 has
\* tv = 1 exactly if the source item's timestamp was valid when tx was called.
C5_SparseTimestamp ==
    (TxReturned("PACKET_READY") /\ pvt.sparseMode = TS_SPARSE_MODE_ENABLED) =>
        IF last.seq % 8 # 0
        THEN /\ Slice(last.buf, AVTP_V0_HEADER_SIZE, 4) = Zeros(4)
             /\ ~TestBit(last.buf[HIDX_AVTP_HIDE7_TV1 + 1], 1)
             /\ ~TestBit(last.buf[HIDX_AVTP_HIDE7_TU1 + 1], 1)
        ELSE \A i \in 1..Len(last.src) :
                last.src[i].item.dataLen > 0 =>
                    (TestBit(last.buf[HIDX_AVTP_HIDE7_TV1 + 1], 1)
                       <=> last.src[i].item.pAvtpTime.bTimestampValid)

\* C5 holds of every session whose payloadSize is not zero
C5_SparseTimestampConfigured == pvt.payloadSize > 0 => C5_SparseTimestamp

\* C9: a tx call whose frame length is below 24 + payloadSize (24 + 2*payloadSize with
\* redundancy), lengths below 24 included, returns PACKET_NOT_READY, writes no byte of
\* the frame, consumes no media-queue data and leaves the redundancy queue alone.
C9_BufferTooSmall ==
    (last.op = "tx" /\ last.lenIn < TxRoomNeeded) =>
        /\ last.ret = "PACKET_NOT_READY"
        /\ last.buf = last.bufIn
        /\ last.itemsSame
        /\ last.queueSame

\* C9 holds of every frame length that is at least the header size
C9_BufferTooSmallAboveHeader == last.op = "tx" /\ last.lenIn >= TOTAL_HEADER_SIZE => C9_BufferTooSmall

\* C10: a tx call that returns PACKET_READY returns a frame length of 24 + payloadSize
\* without redundancy and of 24 + 2*payloadSize with it.
C10_ReturnedDataLen ==
    TxReturned("PACKET_READY") =>
        last.lenOut = TOTAL_HEADER_SIZE + (IF Redundant THEN 2 ELSE 1) * pvt.payloadSize

\* a redundant session sent a packet of two payloads
C10_Witness ==
    /\ TxReturned("PACKET_READY") /\ Redundant /\ pvt.payloadSize > 0
    /\ last.lenIn = TxRoomNeeded
    /\ last.lenOut = TOTAL_HEADER_SIZE + 2 * pvt.payloadSize

(***************************************************************************)
(* Properties of the listener.                                             *)
(***************************************************************************)
\* the stream has the listener's sample format, so that rx appends payloads as received
SameFormat ==
    /\ hist.peer.audioType = pub.audioType
    /\ hist.peer.audioBitDepth = pub.audioBitDepth

\* every packet delivered so far was accepted
AllAccepted == \A i \in 1..Len(hist.slots) : hist.slots[i].kind # "lost" => hist.slots[i].ret

\* the recovery data due for the lost packet of slot i: the second payload of the
\* packet received temporalRedundantOffsetPackets packets earlier, or silence
RecoveryDue(i) ==
    LET j == i - pvt.temporalRedundantOffsetPackets
    IN IF j >= 1 /\ hist.slots[j].kind # "lost"
       THEN hist.slots[j].second ELSE Zeros(pvt.payloadSize)

\* the payloads appended to the media queue so far that are not silence, in order
RECURSIVE Appended(_)
Appended(slots) ==
    IF slots = <<>> THEN <<>>
    ELSE Appended(SubSeq(slots, 1, Len(slots) - 1))
         \o (IF slots[Len(slots)].written # <<>>
                /\ slots[Len(slots)].written[1] # Zeros(Len(slots[Len(slots)].written[1]))
             THEN slots[Len(slots)].written ELSE <<>>)

\* C2: a listener with redundancy that receives an in-order stream of a correct talker
\* and accepts every packet delivered appends, for each lost packet, the second payload
\* of the packet received temporalRedundantOffsetPackets packets earlier (silence when
\* there is none), and appends no payload to the media queue twice.
C2_LossConcealment ==
    (/\ phase = "listener" /\ Alive /\ SameFormat /\ AllAccepted
     /\ Redundant /\ pvt.temporalRedundantOffsetPackets >= 1) =>
        /\ \A i \in 1..Len(hist.slots) :
              (hist.slots[i].kind = "lost" /\ hist.slots[i].written # <<>>) =>
                  hist.slots[i].written[1] = RecoveryDue(i)
        /\ \A i, j \in 1..Len(Appended(hist.slots)) :
              i # j => Appended(hist.slots)[i] # Appended(hist.slots)[j]

\* C2 holds as long as rx_lost could lock the head of the media queue for every lost
\* packet
C2_LossConcealmentHeadLocked ==
    (\A i \in 1..Len(hist.slots) :
        hist.slots[i].kind = "lost" => hist.slots[i].written # <<>>)
    => C2_LossConcealment

\* a delivered frame of this kind fails the validation of the stream's rules
FailsValidation(kind) == kind \in BadKinds \cup {"short", "stream"}

\* the number of entries e of log
LogCount(log, e) == Cardinality({i \in 1..Len(log) : log[i] = e})

\* gen_init ran to its end (it returns early when the redundancy offset is no whole
\* number of packets and when the ring of redundant payloads cannot be allocated)
GenInitCompleted ==
    ~(/\ pvt.temporalRedundantOffsetSamples > 0
      /\ \/ pvt.temporalRedundantOffsetSamples % pub.framesPerPacket # 0
         \/ ~CircularQueueIsValid(temporalRedundantQueue))

\* every frame delivered so far was at least a header long
NoShortFrame == \A i \in 1..Len(hist.slots) : hist.slots[i].kind # "short"

\* the changes of dataValid and the log events of the last rx call
MuteTransitions ==
    last.op = "rx" =>
        /\ (last.wasValid /\ ~pvt.dataValid) <=> (last.wasValid /\ FailsValidation(last.kind))
        /\ (~last.wasValid /\ pvt.dataValid) <=> (~last.wasValid /\ ~FailsValidation(last.kind))
        /\ last.log = IF last.wasValid /\ ~pvt.dataValid THEN <<"muted">>
                      ELSE IF ~last.wasValid /\ pvt.dataValid THEN <<"un-muted">>
                      ELSE <<>>

\* the log events alternate beginning with "muted", and pair up while un-muted
MuteAlternation ==
    /\ \A i \in 1..Len(hist.log) :
          hist.log[i] = IF i % 2 = 1 THEN "muted" ELSE "un-muted"
    /\ pvt.dataValid => LogCount(hist.log, "muted") = LogCount(hist.log, "un-muted")

\* C6: after gen_init dataValid is true for every configuration; dataValid becomes
\* false exactly on a packet that fails validation while un-muted and true exactly on a
\* packet that passes validation while muted; each change logs one event, "muted" or
\* "un-muted"; the events alternate beginning with "muted" and their counts are equal
\* whenever the stream is un-muted.
C6_MuteStateMachine ==
    /\ phase # "created" =>
          /\ last.op = "gen_init" => pvt.dataValid
          /\ MuteTransitions
    /\ phase = "listener" => MuteAlternation

\* C6 holds of the sessions whose gen_init ran to its end, for frames at least a header
\* long
C6_MuteStateMachineAfterFullInit ==
    (GenInitCompleted /\ (phase = "listener" => NoShortFrame)) => C6_MuteStateMachine

\* C7: an rx call on a packet that fails validation (length, format, rate, channel
\* count, bit depth or payload size) returns false, locks no head item and leaves the
\* items of the media queue unchanged.
C7_InvalidPacketLeavesQueue ==
    (last.op = "rx" /\ FailsValidation(last.kind)) =>
        ~last.ret /\ ~last.headLock /\ last.qSame

\* C7 holds of the frames that are at least a header long
C7_InvalidPacketAboveHeader ==
    (last.op = "rx" /\ last.kind \in BadKinds) =>
        ~last.ret /\ ~last.headLock /\ last.qSame

\* C8: an rx call on a frame whose stream_data_length exceeds dataLen - 24, dataLen
\* below 24 included, is invalid: it returns false and writes nothing to the media
\* queue.
C8_LengthCheck ==
    (last.op = "rx" /\ last.payloadLen + TOTAL_HEADER_SIZE > last.dataLen) =>
        ~last.valid /\ ~last.ret /\ last.qSame

\* C8 holds of the frames that are at least a header long
C8_LengthCheckAboveHeader ==
    (/\ last.op = "rx" /\ last.dataLen >= TOTAL_HEADER_SIZE
     /\ last.payloadLen + TOTAL_HEADER_SIZE > last.dataLen) =>
        ~last.valid /\ ~last.ret /\ last.qSame

\* a frame longer than its header fails the length check
C8_AboveHeaderReached ==
    /\ last.op = "rx" /\ last.kind = "length" /\ last.dataLen >= TOTAL_HEADER_SIZE
    /\ last.payloadLen + TOTAL_HEADER_SIZE > last.dataLen /\ ~last.ret

\* the samples of payload, inLen bytes each, as samples of outLen bytes: of each, the
\* first bytes that fit, then zero bytes up to outLen
SamplesResized(payload, inLen, outLen) ==
    [j \in 1..((Len(payload) \div inLen) * outLen) |->
        IF (j - 1) % outLen < inLen
        THEN payload[((j - 1) \div outLen) * inLen + ((j - 1) % outLen) + 1]
        ELSE 0] \o <<>>

\* the last rx call stored a payload of another integer format than the listener's
RxConverted ==
    /\ last.op = "rx" /\ last.written # <<>>
    /\ last.inFormat # pvt.aaf_format
    /\ IsIntFormat(last.inFormat) /\ IsIntFormat(pvt.aaf_format)

\* C14: for an accepted packet of another integer format than the configured one, whose
\* payload holds payloadSize/(6 - out_fmt) samples, the bytes appended to the item are,
\* sample by sample, the first min(in_len, out_len) bytes of the incoming sample and then
\* out_len - in_len zero bytes when widening; the item's dataLen grows by payloadSize.
C14_ListenerConversion ==
    RxConverted =>
        /\ last.written[1] = SamplesResized(last.payload, 6 - last.inFormat,
                                            6 - pvt.aaf_format)
        /\ Len(last.written[1]) = pvt.payloadSize
        /\ last.itemLenAfter = last.itemLenBefore + pvt.payloadSize

\* a 16-bit payload of two samples was stored as 32-bit samples
C14_Witness ==
    /\ RxConverted /\ last.kind = "good"
    /\ last.inFormat = AAF_FORMAT_INT_16 /\ pvt.aaf_format = AAF_FORMAT_INT_32
    /\ Len(last.payload) = 4 /\ Len(last.written[1]) = 8
    /\ last.written[1][1] # 0 /\ last.written[1][5] # 0

\* a 24-bit payload was stored as 16-bit samples
C14_NarrowingReached ==
    /\ RxConverted /\ last.kind = "good"
    /\ last.inFormat = AAF_FORMAT_INT_24 /\ pvt.aaf_format = AAF_FORMAT_INT_16
    /\ last.written[1] = SubSeq(last.payload, 1, 2)

(***************************************************************************)
(* A circular queue on its own: allocated, then pushed to, pulled from and *)
(* compared with, in any order.  The queue is temporalRedundantQueue.      *)
(***************************************************************************)
\* hist.start is bytes_queued at the start, hist.net[n] the pushes of n bytes so far
\* less the pulls of n bytes
QueueInit(q) ==
    /\ temporalRedundantQueue = q
    /\ trStatsEntryTypeQueue = FreeCircularQueue
    /\ pub = <<>>
    /\ pvt = <<>>
    /\ mediaQ = [items |-> <<>>, head |-> <<>>]
    /\ phase = "queue"
    /\ last = [op |-> "allocate"]
    /\ hist = [start |-> CircularQueueBytesQueued(q), net |-> [n \in 0..MaxCap |-> 0],
               nOps |-> 0]

\* a queue as allocated, or as a push of zeros and a pull leave it
InitQueue ==
    \E c \in 1..MaxCap :
        \/ QueueInit(AllocateCircularQueue(FreeCircularQueue, c, TRUE))
        \/ \E h \in 0..(c - 1), t \in 0..(c - 1) :
              QueueInit(PullBufferFromCircularQueue(
                  PushBufferToCircularQueue(
                      PushBufferToCircularQueue(
                          AllocateCircularQueue(FreeCircularQueue, c, TRUE), NULLBUF, c),
                      NULLBUF, h),
                  FALSE, t).q)

\* the data of a push of n bytes: none of them is zero
QueueData(n) == Buf([i \in 1..n |-> 10 + i] \o <<>>)

QueuePush ==
    /\ phase = "queue"
    /\ hist.nOps < MaxOps
    /\ \E n \in 0..temporalRedundantQueue.queueSize :
         \E pData \in {NULLBUF, QueueData(n)} :
            /\ temporalRedundantQueue' =
                   PushBufferToCircularQueue(temporalRedundantQueue, pData, n)
            /\ last' = [op |-> "push", n |-> n,
                        wrapped |-> temporalRedundantQueue.queueHead + n
                                        > temporalRedundantQueue.queueSize]
            /\ hist' = [hist EXCEPT !.net[n] = @ + 1, !.nOps = @ + 1]
    /\ UNCHANGED <<pub, pvt, trStatsEntryTypeQueue, mediaQ, phase>>

QueuePull ==
    /\ phase = "queue"
    /\ hist.nOps < MaxOps
    /\ \E n \in 0..temporalRedundantQueue.queueSize, copy \in BOOLEAN :
         \E r \in {PullBufferFromCircularQueue(temporalRedundantQueue, copy, n)} :
            /\ temporalRedundantQueue' = r.q
            /\ last' = [op |-> "pull", n |-> n,
                        wrapped |-> temporalRedundantQueue.queueTail + n
                                        > temporalRedundantQueue.queueSize]
            /\ hist' = [hist EXCEPT !.net[n] = @ - 1, !.nOps = @ + 1]
    /\ UNCHANGED <<pub, pvt, trStatsEntryTypeQueue, mediaQ, phase>>

\* the bytes a pull of n bytes would return
QueueNext(n) == PullBufferFromCircularQueue(temporalRedundantQueue, TRUE, n).data

\* buffers to compare with next, the next n bytes of the queue: next itself (0 for a
\* byte never written), or that with its first or last byte changed
QueueSources(next) ==
    Let([i \in 1..Len(next) |-> IF next[i] = Uninit THEN 0 ELSE next[i]] \o <<>>, LAMBDA d :
        {d} \cup { [d EXCEPT ![i] = (@ + 1) % 256] \o <<>> : i \in {1, Len(d)} \cap (1..Len(d)) })

QueueCompare ==
    /\ phase = "queue"
    /\ \E n \in 0..temporalRedundantQueue.queueSize :
         \E next \in {QueueNext(n)} :
            \E src \in QueueSources(next) :
               \E ret \in CompareBufferToCircularQueue(temporalRedundantQueue, Buf(src), n) :
                  last' = [op |-> "compare", n |-> n, ret |-> ret,
                           determinate |-> \A i \in 1..n : next[i] # Uninit,
                           expected |-> next = src,
                           wrapped |-> temporalRedundantQueue.queueTail + n
                                           > temporalRedundantQueue.queueSize]
    /\ UNCHANGED <<pub, pvt, temporalRedundantQueue, trStatsEntryTypeQueue, mediaQ,
                   phase, hist>>

NextQueue == QueuePush \/ QueuePull \/ QueueCompare

SpecQueue == InitQueue /\ [][NextQueue]_vars

(***************************************************************************)
(* Properties of the circular queue.                                       *)
(***************************************************************************)
\* every push so far is matched by a pull of as many bytes
QueueMatched == \A n \in 0..MaxCap : hist.net[n] = 0

\* C11: after any pushes and pulls of at most C bytes each, with data or without, the
\* head and tail offsets of a queue of capacity C lie in [0, C); and whenever every push
\* is matched by a pull of as many bytes, bytes_queued is what it was at the start.
C11_QueueOffsets ==
    phase = "queue" =>
        /\ temporalRedundantQueue.queueHead \in 0..(temporalRedundantQueue.queueSize - 1)
        /\ temporalRedundantQueue.queueTail \in 0..(temporalRedundantQueue.queueSize - 1)
        /\ QueueMatched => CircularQueueBytesQueued(temporalRedundantQueue) = hist.start

\* matched pushes and pulls, the last of them across the end of the storage
C11_Witness ==
    /\ phase = "queue" /\ hist.nOps >= 2 /\ QueueMatched
    /\ last.op = "pull" /\ last.wrapped /\ last.n > 0
    /\ hist.start > 0

\* C12: compare(src, n) with n <= C leaves the queue as it is and returns true exactly
\* when the n bytes a pull would return equal src, also where those bytes wrap.
C12_CompareMatchesPull ==
    (last.op = "compare" /\ last.determinate) => (last.ret <=> last.expected)

\* C12 holds where the n bytes do not wrap
C12_CompareMatchesPullUnwrapped ==
    (last.op = "compare" /\ last.determinate /\ ~last.wrapped) =>
        (last.ret <=> last.expected)

(***************************************************************************)
(* The integer sample converter on its own: a buffer of whole samples of   *)
(* format a is converted to format b and back.                             *)
(***************************************************************************)
IntFormats == {AAF_FORMAT_INT_32, AAF_FORMAT_INT_24, AAF_FORMAT_INT_16}

\* bytes of one sample of a given format (6 - format)
SampleLength(f) == 6 - f

\* samples of len bytes: all zero, all ones, or bytes that all differ
SampleValues(len) ==
    { [i \in 1..len |-> v] \o <<>> : v \in {0, 255} }
    \cup { [i \in 1..len |-> 16 * k + i] \o <<>> : k \in 1..2 }

\* buffers of n samples of len bytes
RECURSIVE SampleBuffers(_, _)
SampleBuffers(len, n) ==
    IF n = 0 THEN {<<>>}
    ELSE { x \o y : x \in SampleValues(len), y \in SampleBuffers(len, n - 1) }

InitConvert ==
    /\ \E a \in IntFormats, b \in IntFormats, n \in 1..MaxSamples :
          \E buf \in SampleBuffers(SampleLength(a), n) :
              hist = [a |-> a, b |-> b, samples |-> n, original |-> buf]
    /\ last = [op |-> "none"]
    /\ phase = "convert"
    /\ pub = <<>>
    /\ pvt = <<>>
    /\ temporalRedundantQueue = FreeCircularQueue
    /\ trStatsEntryTypeQueue = FreeCircularQueue
    /\ mediaQ = [items |-> <<>>, head |-> <<>>]

\* the buffer is converted from format a to format b
ConvertThere ==
    /\ phase = "convert"
    /\ last.op = "none"
    /\ last' = [op |-> "there",
                data |-> ConvertSamples(hist.original, 0, Len(hist.original),
                                        SampleLength(hist.a), SampleLength(hist.b))]
    /\ UNCHANGED <<pub, pvt, temporalRedundantQueue, trStatsEntryTypeQueue, mediaQ,
                   phase, hist>>

\* the converted buffer is converted back from format b to format a
ConvertBack ==
    /\ phase = "convert"
    /\ last.op = "there"
    /\ last' = [op |-> "back",
                data |-> ConvertSamples(last.data, 0, Len(last.data),
                                        SampleLength(hist.b), SampleLength(hist.a))]
    /\ UNCHANGED <<pub, pvt, temporalRedundantQueue, trStatsEntryTypeQueue, mediaQ,
                   phase, hist>>

NextConvert == ConvertThere \/ ConvertBack

SpecConvert == InitConvert /\ [][NextConvert]_vars

\* buf with, of every sample of len bytes, the first keep bytes kept and the others zero
LowBytesZeroed(buf, len, keep) ==
    [i \in 1..Len(buf) |-> IF ((i - 1) % len) < keep THEN buf[i] ELSE 0] \o <<>>

\* C13: converting a buffer of integer samples from format a to format b and back gives
\* the original bytes when a >= b, and when a < b gives every sample with its first
\* (6 - b) bytes kept and its last (6 - a) - (6 - b) bytes zero.
C13_ConverterRoundTrip ==
    (phase = "convert" /\ last.op = "back") =>
        last.data = IF hist.a >= hist.b THEN hist.original
                    ELSE LowBytesZeroed(hist.original, SampleLength(hist.a),
                                        SampleLength(hist.b))

\* a round trip through a narrower format that loses bytes that were not zero
C13_Witness ==
    /\ phase = "convert" /\ last.op = "back" /\ hist.a < hist.b
    /\ hist.samples = MaxSamples
    /\ last.data # hist.original
    /\ last.data = LowBytesZeroed(hist.original, SampleLength(hist.a), SampleLength(hist.b))

(***************************************************************************)
(* The size calculator on its own: a configured session, then              *)
(* x_calculateSizes as gen_init calls it.                                  *)
(***************************************************************************)
\* the rates with a rate code, and one without
AudioRates == {8000, 16000, 24000, 32000, 44100, 48000, 88200, 96000, 176400, 192000, 11025}

\* the sample formats with an AAF format: <<audioType, audioBitDepth>>
AudioFormats == {<<"int", 16>>, <<"int", 24>>, <<"int", 32>>, <<"float", 32>>}

AudioChannelCounts == {1, 2, 8}

\* transmit intervals (packets per second) that divide some rates and not others
TxIntervals == {1, 300, 4000, 8000}

PackingFactors == {1, 2, 8}

RedundantOffsets == {0, 1000}

InitSizes ==
    /\ \E rate \in AudioRates, f \in AudioFormats, ch \in AudioChannelCounts :
          pub = PubMapInfo(rate, f[1], f[2], ch)
    /\ \E txInterval \in TxIntervals, pf \in PackingFactors, usec \in RedundantOffsets :
          pvt = CfgCB(Initialize(2),
                      Config(0, "int", 0, txInterval, pf, TS_SPARSE_MODE_DISABLED, usec))
    /\ temporalRedundantQueue = FreeCircularQueue
    /\ trStatsEntryTypeQueue = FreeCircularQueue
    /\ mediaQ = [items |-> <<>>, head |-> <<>>]
    /\ phase = "configured"
    /\ last = [op |-> "init"]
    /\ hist = <<>>

CalculateSizes ==
    /\ phase = "configured"
    /\ \E r \in {x_calculateSizes(pub, pvt)} :
          /\ pub' = r.pub
          /\ pvt' = r.pvt
    /\ phase' = "sized"
    /\ last' = [op |-> "x_calculateSizes", txByte |-> FormatInfoWord(pub', pvt')[2]]
    /\ UNCHANGED <<temporalRedundantQueue, trStatsEntryTypeQueue, mediaQ, hist>>

\* tx_init of a session whose sizes gen_init has calculated
SizedTxInit ==
    /\ phase = "sized"
    /\ pvt' = openavbMapAVTPAudioTxInitCB(pvt)
    /\ phase' = "sized_talker"
    /\ last' = [op |-> "tx_init", txByte |-> FormatInfoWord(pub, pvt)[2]]
    /\ UNCHANGED <<pub, temporalRedundantQueue, trStatsEntryTypeQueue, mediaQ, hist>>

\* the AVTP layer asks for the largest frame of the session
MaxDataSizeCall ==
    /\ phase \in {"configured", "sized", "sized_talker"}
    /\ last.op # "max_data_size"
    /\ last' = [op |-> "max_data_size", ret |-> openavbMapAVTPAudioMaxDataSizeCB(pvt),
                txByte |-> FormatInfoWord(pub, pvt)[2]]
    /\ UNCHANGED <<pub, pvt, temporalRedundantQueue, trStatsEntryTypeQueue, mediaQ,
                   phase, hist>>

NextSizes == CalculateSizes \/ SizedTxInit \/ MaxDataSizeCall

SpecSizes == InitSizes /\ [][NextSizes]_vars

\* bytes of a sample of a format
SampleSizeBytes(audioType, audioBitDepth) ==
    IF audioType = "float" \/ audioBitDepth = 32 THEN 4
    ELSE IF audioBitDepth = 24 THEN 3 ELSE 2

\* C15: for every supported rate, format, channel count, txInterval > 0 and packing
\* factor, framesPerPacket is rate / txInterval rounded up; payloadSize is
\* framesPerPacket * channels * sample size (4 for int32 and float32, 3 for int24, 2 for
\* int16); itemSize is payloadSize * packingFactor; payloadSizeMaxTalker is payloadSize,
\* doubled exactly when redundancy is enabled; payloadSizeMaxListener is
\* 2 * 4 * channels * framesPerPacket for the integer formats.
C15_SizeCalculator ==
    (phase = "sized" /\ pvt.aaf_rate # AAF_RATE_UNSPEC) =>
        /\ pub.framesPerPacket * pvt.txInterval >= pub.audioRate
        /\ (pub.framesPerPacket - 1) * pvt.txInterval < pub.audioRate
        /\ pvt.payloadSize = pub.framesPerPacket * pub.audioChannels
                                * SampleSizeBytes(pub.audioType, pub.audioBitDepth)
        /\ pub.itemSize = pvt.payloadSize * pvt.packingFactor
        /\ pvt.payloadSizeMaxTalker =
              IF pvt.temporalRedundantOffsetUsec > 0 THEN 2 * pvt.payloadSize
              ELSE pvt.payloadSize
        /\ pub.audioType = "int" =>
              pvt.payloadSizeMaxListener = 2 * 4 * pub.audioChannels * pub.framesPerPacket

\* sizes of a redundant 24-bit session whose rate is no multiple of its interval
C15_Witness ==
    /\ phase = "sized" /\ pub.audioRate = 44100 /\ pvt.txInterval = 8000
    /\ pub.audioType = "int" /\ pub.audioBitDepth = 24 /\ pub.audioChannels = 2
    /\ pvt.packingFactor = 2 /\ pvt.temporalRedundantOffsetUsec > 0
    /\ pub.framesPerPacket = 6 /\ pvt.payloadSize = 36 /\ pub.itemSize = 72
    /\ pvt.payloadSizeMaxTalker = 72 /\ pvt.payloadSizeMaxListener = 96

\* the rate code of a rate when the codes from 1 on are given to the rates of order,
\* one after the other, and 0 to every other rate
RateCodeByOrder(order, audioRate) ==
    IF \E i \in 1..Len(order) : order[i] = audioRate
    THEN CHOOSE i \in 1..Len(order) : order[i] = audioRate
    ELSE 0

\* C17 as the code has it: the rate code the talker writes and the listener expects is,
\* for the rates in the order unspec, 8k, 16k, 32k, 44.1k, 48k, 88.2k, 96k, 176.4k, 192k,
\* 24k, the value 0, 1, 2, 3, 4, 5, 6, 7, 8, 9, 10.
C17_RateCodes ==
    phase = "sized" =>
        /\ pvt.aaf_rate = RateCodeByOrder(<<8000, 16000, 32000, 44100, 48000, 88200,
                                            96000, 176400, 192000, 24000>>, pub.audioRate)
        /\ last.txByte \div 16 = pvt.aaf_rate

\* C17: the rate code the talker writes and the listener expects is, for the rates in the
\* order unspec, 8k, 16k, 24k, 32k, 44.1k, 48k, 88.2k, 96k, 176.4k, 192k, the value
\* 0, 1, 2, 3, 4, 5, 6, 7, 8, 9, 10.
C17_RateCodesInRateOrder ==
    phase = "sized" =>
        /\ pvt.aaf_rate = RateCodeByOrder(<<8000, 16000, 24000, 32000, 44100, 48000,
                                            88200, 96000, 176400, 192000>>, pub.audioRate)
        /\ last.txByte \div 16 = pvt.aaf_rate

\* a session of 24 kHz has rate code 10
C17_Witness ==
    phase = "sized" /\ pub.audioRate = 24000 /\ pvt.aaf_rate = 10 /\ last.txByte \div 16 = 10

(***************************************************************************)
(* Properties of a session whose redundancy offset gen_init refuses.       *)
(***************************************************************************)
\* gen_init found a redundancy offset that is no whole number of packets
RedundancyRefused ==
    /\ phase \in {"gen", "talker", "listener"}
    /\ pvt.temporalRedundantOffsetSamples % pub.framesPerPacket # 0

\* C16: when the configured redundancy offset is not zero and no whole number of packets,
\* gen_init allocates no redundancy queue, and afterwards every tx call returns
\* PACKET_NOT_READY and every rx call returns false.
C16_RefusedRedundancy ==
    RedundancyRefused =>
        /\ ~CircularQueueIsValid(temporalRedundantQueue)
        /\ last.op = "tx" => last.ret = "PACKET_NOT_READY"
        /\ last.op = "rx" => ~last.ret

\* the part of C16 that is about gen_init and tx
C16_RefusedRedundancyTalker ==
    RedundancyRefused =>
        /\ ~CircularQueueIsValid(temporalRedundantQueue)
        /\ last.op = "tx" => last.ret = "PACKET_NOT_READY"

\* a tx call of a session with a refused offset, with data queued and room in the buffer
C16_TalkerReached ==
    /\ RedundancyRefused /\ last.op = "tx" /\ last.ret = "PACKET_NOT_READY"
    /\ mediaQ.items # <<>> /\ last.lenIn >= TOTAL_HEADER_SIZE + 2 * pvt.payloadSize

(***************************************************************************)
(* Properties of rx_lost.                                                  *)
(***************************************************************************)
\* the last callback was rx_lost, called with redundancy enabled and the stream un-muted
LostWhileActive == last.op = "rx_lost" /\ last.wasRedundant /\ last.wasValid

\* the counters count the numLost packets of the last rx_lost call: total and lost rise
\* by numLost each, and the two needed counters by numLost together
LostCounted ==
    /\ RedundancyStats(pvt)[1] = last.statsBefore[1] + last.numLost
    /\ RedundancyStats(pvt)[2] = last.statsBefore[2] + last.numLost
    /\ RedundancyStats(pvt)[3] >= last.statsBefore[3]
    /\ RedundancyStats(pvt)[4] >= last.statsBefore[4]
    /\ RedundancyStats(pvt)[3] + RedundancyStats(pvt)[4]
         = last.statsBefore[3] + last.statsBefore[4] + last.numLost

\* C18: when rx_lost(n) is called with redundancy enabled and the stream un-muted, in
\* every state of the media queue totalFrames and lostFrames rise by n each, and for each
\* lost packet one of neededAvailable and neededNotAvailable rises by one.
C18_LostCounters == LostWhileActive => LostCounted

\* C18 holds of the calls that could lock the head of the media queue for every lost
\* packet
C18_LostCountersHeadLocked ==
    (LostWhileActive /\ last.locked = last.numLost) => LostCounted

\* an active rx_lost call that locked the head for every packet, of which one had
\* recovery data and one had none
C18_HeadLockedReached ==
    /\ LostWhileActive /\ last.locked = last.numLost /\ last.numLost >= 2
    /\ RedundancyStats(pvt)[3] > last.statsBefore[3]
    /\ RedundancyStats(pvt)[4] > last.statsBefore[4]

\* C19: rx_lost never changes dataValid; and when redundancy is disabled or the stream is
\* muted, rx_lost leaves the media queue, the redundancy queue, the stats ring and the
\* four statistics counters unchanged.
C19_LostFrame ==
    last.op = "rx_lost" =>
        /\ pvt.dataValid = last.wasValid
        /\ ~(last.wasRedundant /\ last.wasValid) =>
              /\ last.same
              /\ RedundancyStats(pvt) = last.statsBefore

\* rx_lost was called on a muted stream with redundancy enabled, a free item at the head
\* of the media queue and a payload in the redundancy queue
C19_Witness ==
    /\ last.op = "rx_lost" /\ last.wasRedundant /\ ~last.wasValid
    /\ Len(mediaQ.items) < MaxItems
    /\ CircularQueueIsValid(temporalRedundantQueue)
    /\ \E i \in 1..Len(hist.slots) : hist.slots[i].kind = "good"

\* rx_lost was called after the redundancy was disabled
C19_DisabledReached ==
    /\ last.op = "rx_lost" /\ ~last.wasRedundant /\ last.wasValid
    /\ pvt.temporalRedundantOffsetSamples > 0
(***************************************************************************)
(* Properties of the listener's redundancy switch.                         *)
(***************************************************************************)
\* the last callback was rx, with redundancy enabled, of a frame too short to hold two
\* payloads of the length its header gives
LackOfData ==
    /\ last.op = "rx" /\ last.wasRedundant
    /\ last.dataLen < TOTAL_HEADER_SIZE + 2 * last.payloadLen

\* a step of a listener whose redundancy is disabled leaves it disabled and leaves both
\* rings and the four statistics counters as they are
DisabledStep ==
    (phase = "listener" /\ pvt.temporalRedundantOffsetUsec = 0) =>
        /\ pvt'.temporalRedundantOffsetUsec = 0
        /\ temporalRedundantQueue' = temporalRedundantQueue
        /\ trStatsEntryTypeQueue' = trStatsEntryTypeQueue
        /\ RedundancyStats(pvt') = RedundancyStats(pvt)

\* C20: an rx frame shorter than 24 + 2 * stream_data_length, received while redundancy
\* is enabled, disables the redundancy, and it stays disabled for the rest of the
\* session: no later rx or rx_lost call pushes to or pulls from the redundancy queue or
\* the stats ring, or changes the redundancy statistics.
C20_OneWayDisable ==
    /\ [](LackOfData => pvt.temporalRedundantOffsetUsec = 0)
    /\ [][DisabledStep]_vars

\* a listener configured with redundancy that lost it to a frame of one payload, and has
\* since been through an rx_lost call and an rx call that stored a payload
C20_Witness ==
    /\ phase = "listener" /\ pvt.temporalRedundantOffsetSamples > 0
    /\ pvt.temporalRedundantOffsetUsec = 0
    /\ last.op = "rx" /\ last.ret /\ ~last.wasRedundant
    /\ \E i, j \in 1..Len(hist.slots) :
          /\ i < j
          /\ hist.slots[i].kind # "lost" /\ ~hist.slots[i].redundant
          /\ hist.slots[j].kind = "lost"
(***************************************************************************)
(* Properties of the listener's start-up.                                  *)
(***************************************************************************)
\* slot i of the stream is the first for which a payload was written to an item
FirstWritten(i) ==
    /\ hist.slots[i].written # <<>>
    /\ \A j \in 1..(i - 1) : hist.slots[j].written = <<>>

\* the first payload written came from a received packet with tv set
StartedOnTimestamp ==
    \A i \in 1..Len(hist.slots) :
        FirstWritten(i) => hist.slots[i].kind # "lost" /\ hist.slots[i].tv

\* while the media queue is not synchronised nothing has been written to an item and
\* no item has been pushed
NothingBeforeSync ==
    ~pvt.mediaQItemSyncTS =>
        /\ \A i \in 1..Len(hist.slots) : hist.slots[i].written = <<>>
        /\ mediaQ.items = <<>>
        /\ mediaQ.head # <<>> => mediaQ.head[1].dataLen = 0

\* C21: after initialisation, over any sequence of rx and rx_lost calls, the first
\* payload written to a media-queue item comes from a received packet with tv = 1, and
\* until such a packet arrives at an empty item no item's dataLen rises and no item is
\* pushed.
C21_StartUpSync ==
    phase = "listener" => StartedOnTimestamp /\ NothingBeforeSync

\* rx_lost wrote the first payload of the session
LostWroteFirst ==
    \E i \in 1..Len(hist.slots) : FirstWritten(i) /\ hist.slots[i].kind = "lost"

\* C21 holds of the sessions in which rx_lost did not write before rx
C21_StartUpSyncRx ==
    (phase = "listener" /\ ~LostWroteFirst) => StartedOnTimestamp /\ NothingBeforeSync

\* rx dropped a valid packet without a timestamp, and stored a later one that had one
C21_DroppedReached ==
    /\ phase = "listener" /\ ~LostWroteFirst
    /\ last.op = "rx" /\ last.tv /\ ~last.wasSync /\ last.written # <<>>
    /\ \E i \in 1..Len(hist.slots) :
          /\ hist.slots[i].kind = "good" /\ ~hist.slots[i].tv
          /\ hist.slots[i].written = <<>>
(***************************************************************************)
(* Properties of the filling of media-queue items by the listener.         *)
(***************************************************************************)
\* the bytes of the payloads written to items for the slots of the stream, in order:
\* of each write the payloadSize bytes that dataLen is advanced by
RECURSIVE AllWritten(_)
AllWritten(slots) ==
    IF slots = <<>> THEN <<>>
    ELSE (IF Head(slots).written = <<>> THEN <<>>
          ELSE SubSeq(Head(slots).written[1], 1, pvt.payloadSize))
         \o AllWritten(Tail(slots))

\* the data the listener has put into the media queue: what the reader has taken, what
\* waits for it and what is in the item at the head
QueueContents == hist.read \o ItemData(mediaQ.items) \o ItemData(mediaQ.head)

\* C22: rx and rx_lost append each payload at the item's dataLen, in the order of
\* arrival; an item is released with HeadPush only once its dataLen has reached
\* itemSize, and with HeadUnlock otherwise; no item's dataLen ever exceeds itemSize.
C22_ItemFilling ==
    phase = "listener" =>
        /\ QueueContents = AllWritten(hist.slots)
        /\ \A i \in 1..Len(mediaQ.items) :
              /\ Len(mediaQ.items[i].pPubData) = pub.itemSize
              /\ mediaQ.items[i].dataLen = pub.itemSize
        /\ mediaQ.head # <<>> =>
              /\ Len(mediaQ.head[1].pPubData) = pub.itemSize
              /\ mediaQ.head[1].dataLen < pub.itemSize

\* an item of two packets was filled by rx_lost and then rx, and pushed
C22_Witness ==
    /\ phase = "listener" /\ pub.itemSize = 2 * pvt.payloadSize
    /\ last.op = "rx" /\ last.written # <<>> /\ last.itemLenBefore = pvt.payloadSize
    /\ mediaQ.items # <<>> /\ mediaQ.head = <<>>
    /\ Len(hist.slots) >= 2 /\ hist.slots[Len(hist.slots) - 1].kind = "lost"
    /\ hist.slots[Len(hist.slots) - 1].written # <<>>

\* the reader has taken items, and a payload has been written since
C22_ReadReached ==
    /\ phase = "listener" /\ hist.read # <<>>
    /\ last.op \in {"rx", "rx_lost"} /\ QueueContents # hist.read
(***************************************************************************)
(* Properties of the media-queue calls of a callback.                      *)
(***************************************************************************)
\* the media-queue calls ops, made from a state in which the tail lock is held iff tail
\* and the head lock iff head, are balanced: every release follows a lock that
\* succeeded and that nothing has released yet, no lock is taken twice, and no lock is
\* held at the end
RECURSIVE Balanced(_, _, _)
Balanced(ops, tail, head) ==
    IF ops = <<>> THEN ~tail /\ ~head
    ELSE CASE Head(ops) = "TailLock" -> ~tail /\ Balanced(Tail(ops), TRUE, head)
           [] Head(ops) = "TailLockNull" -> ~tail /\ Balanced(Tail(ops), FALSE, head)
           [] Head(ops) \in {"TailUnlock", "TailPull"} ->
                tail /\ Balanced(Tail(ops), FALSE, head)
           [] Head(ops) = "HeadLock" -> ~head /\ Balanced(Tail(ops), tail, TRUE)
           [] Head(ops) = "HeadLockNull" -> ~head /\ Balanced(Tail(ops), tail, FALSE)
           [] Head(ops) \in {"HeadUnlock", "HeadPush"} ->
                head /\ Balanced(Tail(ops), tail, FALSE)

\* C23: in every tx, rx and rx_lost call, on every exit path, each successful TailLock
\* is followed before the return by exactly one TailUnlock or TailPull and each
\* successful HeadLock by exactly one HeadUnlock or HeadPush, and no unlock, pull or
\* push is issued while the lock is not held.
C23_LockBalance ==
    last.op \in {"tx", "rx", "rx_lost"} => Balanced(last.ops, FALSE, FALSE)

\* C23 holds of the tx calls that reach the end of the frame-gathering loop
C23_LockBalanceGathered ==
    (last.op = "tx" /\ last.ret = "PACKET_READY") => Balanced(last.ops, FALSE, FALSE)

\* a tx call that gathered a packet from two items, pulling the one and unlocking the
\* other
C23_GatheredReached ==
    /\ last.op = "tx" /\ last.ret = "PACKET_READY"
    /\ \E i, j \in 1..Len(last.ops) : last.ops[i] = "TailPull" /\ last.ops[j] = "TailUnlock"

\* an rx_lost call in which one head lock succeeded and one failed
C23_ListenerReached ==
    /\ last.op = "rx_lost"
    /\ \E i, j \in 1..Len(last.ops) : last.ops[i] = "HeadPush" /\ last.ops[j] = "HeadLockNull"

\* a tx call that found the frame too short by one byte released a tail it never locked
C23_EarlyUnlockReached ==
    /\ last.op = "tx" /\ last.ret = "PACKET_NOT_READY" /\ last.ops = <<"TailUnlock">>
    /\ ~Redundant /\ last.lenIn = TOTAL_HEADER_SIZE + pvt.payloadSize - 1
(***************************************************************************)
(* Properties of the memory of the two rings.                              *)
(***************************************************************************)
\* the redundancy queue, once allocated, has the size gen_init gives it and holds fewer
\* bytes than that
QueueBounded ==
    CircularQueueIsValid(temporalRedundantQueue) =>
        /\ temporalRedundantQueue.queueSize
             = pvt.temporalRedundantQueueFrameSize * (pvt.temporalRedundantOffsetPackets + 2)
        /\ CircularQueueBytesQueued(temporalRedundantQueue)
             <= pvt.temporalRedundantQueueFrameSize * pvt.temporalRedundantOffsetPackets

\* the stats ring, once allocated, has the size rx_init gives it and holds fewer entries
\* than that
StatsBounded ==
    CircularQueueIsValid(trStatsEntryTypeQueue) =>
        /\ trStatsEntryTypeQueue.queueSize = pvt.temporalRedundantOffsetPackets + 10
        /\ CircularQueueBytesQueued(trStatsEntryTypeQueue) <= pvt.temporalRedundantOffsetPackets

\* C24: in every reachable state of a talker or listener session, under any sequence of
\* tx, rx and rx_lost calls, the redundancy queue holds fewer unread bytes than its
\* capacity frameSize * (redundancyOffsetPackets + 2) and the stats ring fewer unread
\* entries than redundancyOffsetPackets + 10, and no push overwrites bytes that have
\* not been pulled.
C24_BoundedMemory ==
    (phase \in {"talker", "listener"} /\ Alive) =>
        /\ CircularQueueIsValid(temporalRedundantQueue) =>
              CircularQueueBytesQueued(temporalRedundantQueue)
                < pvt.temporalRedundantQueueFrameSize * (pvt.temporalRedundantOffsetPackets + 2)
        /\ CircularQueueIsValid(trStatsEntryTypeQueue) =>
              CircularQueueBytesQueued(trStatsEntryTypeQueue)
                < pvt.temporalRedundantOffsetPackets + 10
        /\ last.op \in {"tx", "rx", "rx_lost"} => last.below

\* while every packet carries payloads of the size of the stream, the rings hold no more
\* than the frames of the packets of the redundancy offset
C24_OffsetFrames ==
    (phase \in {"talker", "listener"} /\ Alive) => QueueBounded /\ StatsBounded

\* an rx call that saved a payload longer than a frame of the queue, of a packet that
\* passed validation
C24_LongFrameReached ==
    /\ phase = "listener" /\ last.op = "rx" /\ last.ret /\ last.valid /\ last.wasRedundant
    /\ last.payloadLen > pvt.temporalRedundantQueueFrameSize
    /\ last.below

\* a tx call that pushed a frame to a queue holding the frames of two packets
C24_TalkerReached ==
    /\ phase = "talker" /\ last.op = "tx" /\ last.ret = "PACKET_READY"
    /\ pvt.temporalRedundantOffsetPackets = 2 /\ ~last.queueSame
    /\ CircularQueueBytesQueued(temporalRedundantQueue)
         = 2 * pvt.temporalRedundantQueueFrameSize

\* an rx call of a listener with redundancy that saved the second payload, after an
\* rx_lost call that recovered a packet
C24_Witness ==
    /\ phase = "listener" /\ last.op = "rx" /\ last.ret /\ last.wasRedundant /\ Redundant
    /\ \E i \in 1..Len(hist.slots) :
          hist.slots[i].kind = "lost" /\ hist.slots[i].written # <<>>
    /\ CircularQueueBytesQueued(trStatsEntryTypeQueue) = pvt.temporalRedundantOffsetPackets
(***************************************************************************)
(* Properties of the bytes of the header the talker does not own.          *)
(***************************************************************************)
\* the bytes of the header's first half that tx leaves alone, and those of which it
\* may change bit 0 only
TxForeignBytes == {0, 2} \cup (4..(AVTP_V0_HEADER_SIZE - 1))
TxFlagBytes == {1, 3}

\* C25: a tx call never modifies bytes 0, 2 and 4..11 of the 24-byte prefix, and in
\* bytes 1 and 3 it changes at most bit 0: all other bits keep the values the AVTP
\* layer wrote.
C25_HeaderFrame ==
    last.op = "tx" =>
        /\ \A i \in TxForeignBytes : last.buf[i + 1] = last.bufIn[i + 1]
        /\ \A i \in TxFlagBytes : last.buf[i + 1] \div 2 = last.bufIn[i + 1] \div 2

\* a packet for which tx set the tv flag in a byte whose other bits were all set, and
\* cleared the tu flag
C25_Witness ==
    /\ last.op = "tx" /\ last.ret = "PACKET_READY" /\ last.fill = 255
    /\ last.buf[HIDX_AVTP_HIDE7_TV1 + 1] = 255
    /\ last.buf[HIDX_AVTP_HIDE7_TU1 + 1] = 254

\* a packet for which tx cleared the tv flag of such a byte
C25_ClearedReached ==
    /\ last.op = "tx" /\ last.ret = "PACKET_READY" /\ last.fill = 255
    /\ last.buf[HIDX_AVTP_HIDE7_TV1 + 1] = 254

(***************************************************************************)
(* Properties of the payload-size validation of the listener.              *)
(***************************************************************************)
\* whether the last rx call converted the samples of its packet
LastConverted ==
    RxConversionEnabled(pvt, [incoming_aaf_format |-> last.inFormat])

\* the payload-size condition of rx for the packet of the last rx call
LastSizeAccepted ==
    \/ last.payloadLen = pvt.payloadSize
    \/ /\ LastConverted
       /\ last.payloadLen \div (6 - last.inFormat) = pvt.payloadSize \div (6 - pvt.aaf_format)

\* the last rx call wrote a payload to an item
LastWrote ==
    last.op = "rx" /\ last.valid /\ last.written # <<>>

\* C27: a packet passes the validation of rx only if its stream_data_length equals
\* payloadSize, or conversion is enabled and incoming / (6 - in_fmt) equals
\* payloadSize / (6 - out_fmt); and for every packet that passes with conversion
\* enabled the converter writes exactly payloadSize bytes into the item, without the
\* "Output not expected size" error.
C27_PayloadSize ==
    /\ (last.op = "rx" /\ last.valid) => LastSizeAccepted
    /\ (LastWrote /\ LastConverted) =>
          /\ Len(last.written[1]) = pvt.payloadSize
          /\ \A i \in 1..Len(last.errors) : last.errors[i] # "size"

\* the first half of C27: the packets that pass satisfy the payload-size condition
C27_Acceptance ==
    (last.op = "rx" /\ last.valid) => LastSizeAccepted

\* the second half of C27 for payloads that are a whole number of incoming samples
C27_WholeSamples ==
    (LastWrote /\ LastConverted /\ last.payloadLen % (6 - last.inFormat) = 0) =>
          /\ Len(last.written[1]) = pvt.payloadSize
          /\ \A i \in 1..Len(last.errors) : last.errors[i] # "size"

\* the converter wrote the payloadSize bytes of a payload of whole samples
C27_ConvertedReached ==
    /\ LastWrote /\ LastConverted /\ last.kind = "good"
    /\ Len(last.written[1]) = pvt.payloadSize /\ last.errors = <<>>

\* a packet whose payload is not a whole number of samples passed the validation and the
\* converter wrote more than payloadSize bytes
C27_RaggedReached ==
    /\ LastWrote /\ LastConverted /\ last.kind = "ragged"
    /\ last.payloadLen % (6 - last.inFormat) # 0
    /\ Len(last.written[1]) > pvt.payloadSize
    /\ last.errors = <<"size">>

\* a packet of another payload size, with and without conversion, was refused
C27_RefusedReached ==
    /\ last.op = "rx" /\ ~last.valid /\ ~LastSizeAccepted /\ last.wasValid
    /\ last.errors = <<"payload">>

(***************************************************************************)
(* Properties of the positions of the sp flag and the event field.         *)
(***************************************************************************)
\* the packet of the last rx call is a packet as the talker's tx built it: byte 0 is
\* the AAF subtype, bit 4 of byte 22 is the talker's sparse mode, and the event field
\* is in the low nibble of the byte at offset evt
TalkerFields(evt) ==
    (last.op = "rx" /\ last.kind = "good") =>
        /\ last.header[1] = AVTP_SUBTYPE_AAF
        /\ TestBit(last.header[23], SP_M0_BIT)
             <=> (PeerSession(hist.peer).pvt.sparseMode = TS_SPARSE_MODE_ENABLED)
        /\ last.header[evt + 1] % 16 = PeerSession(hist.peer).pvt.aaf_event_field

\* the last rx call took the sp flag from bit 4 of byte 22 and compared the low nibble
\* of the byte at offset evt with the event field of the listener
ListenerFields(evt) ==
    last.op = "rx" =>
        /\ (pvt.sparseMode = TS_SPARSE_MODE_ENABLED) <=> TestBit(last.header[23], SP_M0_BIT)
        /\ (\E i \in 1..Len(last.errors) : last.errors[i] = "event")
             <=> (last.wasValid /\ last.header[evt + 1] % 16 # pvt.aaf_event_field)

C26_ReservedReached ==
    /\ last.op = "rx" /\ last.kind = "reserved" /\ last.wasValid
    /\ last.header[23] % 16 = 0 /\ last.header[24] = 1
    /\ last.errors = <<>> /\ last.valid

\* a listener took the sparse mode of a packet of a sparse talker
C26_SparseReached ==
    /\ last.op = "rx" /\ last.kind = "good" /\ TestBit(last.header[23], SP_M0_BIT)
    /\ pvt.sparseMode = TS_SPARSE_MODE_ENABLED

(***************************************************************************)
(* Properties of the error logs of the validation.                         *)
(***************************************************************************)
\* the last rx call moved the stream from un-muted to muted
LastMuted ==
    last.op = "rx" /\ last.wasValid /\ ~pvt.dataValid

\* the last rx call got an invalid packet while the stream was muted
LastStillMuted ==
    last.op = "rx" /\ ~last.wasValid /\ ~last.valid

\* C28: every rx packet that moves the stream from un-muted to muted emits exactly one
\* error-level log, however many header fields mismatch, and an invalid packet received
\* while the stream is already muted emits no validation error log.
C28_SingleErrorLog ==
    /\ LastMuted => Len(last.errors) = 1
    /\ LastStillMuted => last.errors = <<>>

\* the second half of C28, and the first as the code has it: the packet that mutes the
\* stream emits one error log for each check it fails
C28_ErrorLogPerCheck ==
    /\ LastMuted => Len(last.errors) >= 1
    /\ (LastMuted /\ last.kind \in {"rate", "channels"}) => last.errors = <<last.kind>>
    /\ LastStillMuted => last.errors = <<>>

\* a packet of another rate and channel count muted the stream with two error logs
C28_TwoLogsReached ==
    LastMuted /\ last.kind = "stream" /\ last.errors = <<"rate", "channels">>

\* an invalid packet reached a muted stream and nothing was logged
C28_MutedReached ==
    LastStillMuted /\ last.kind = "stream" /\ last.errors = <<>> /\ ~pvt.dataValid

(***************************************************************************)
(* Properties of the timestamp of the talker.                              *)
(***************************************************************************)
\* the nanoseconds tx adds to the time of an item: the maximum transit time, and the
\* redundancy offset when redundancy is on
TransitNsec ==
    (pvt.maxTransitUsec + (IF Redundant THEN pvt.temporalRedundantOffsetUsec ELSE 0)) * 1000

\* the four bytes, most significant first, of the residue of ns modulo 2^32
TimestampBytes(ns) ==
    [j \in 1..4 |-> CASE j = 4 -> ns % 256
                      [] j = 3 -> (ns \div 256) % 256
                      [] j = 2 -> (ns \div 65536) % 256
                      [] OTHER -> (ns \div 16777216) % 256]

\* the last tx call reported a packet whose tv bit is 1
StampedPacket ==
    TxReturned("PACKET_READY") /\ TestBit(last.buf[HIDX_AVTP_HIDE7_TV1 + 1], 1)

\* the packet of the last tx call carries the time of the item its payload came from,
\* and the item, if it stays queued, has lost its timestamp-valid flag
StampedFromItem ==
    /\ last.src # <<>>
    /\ LET taken == last.src[Len(last.src)]
       IN /\ taken.item.pAvtpTime.bTimestampValid
          /\ Slice(last.buf, AVTP_V0_HEADER_SIZE, 4)
               = TimestampBytes(taken.item.pAvtpTime.timeNsec + TransitNsec)
          /\ TestBit(last.buf[HIDX_AVTP_HIDE7_TU1 + 1], 1)
               <=> taken.item.pAvtpTime.bTimestampUncertain
          /\ taken.op = "TailUnlock" =>
               /\ mediaQ.items # <<>>
               /\ ~mediaQ.items[1].pAvtpTime.bTimestampValid
               /\ mediaQ.items[1].pAvtpTime.timeNsec
                    = taken.item.pAvtpTime.timeNsec + TransitNsec

\* every queued item has the time it was queued with, or that time plus the transit
\* offset added once, by a tx call that read from it and cleared its valid flag
OffsetAddedOnce ==
    \A i \in 1..Len(mediaQ.items) :
        LET item == mediaQ.items[i]
            queued == PushTime(hist.nPush - Len(mediaQ.items) + i)
        IN \/ item.pAvtpTime.timeNsec = queued
           \/ /\ item.pAvtpTime.timeNsec = queued + TransitNsec
              /\ ~item.pAvtpTime.bTimestampValid
              /\ item.readIdx > 0

\* C29: whenever tx emits a packet with tv = 1, the 32-bit timestamp field equals the
\* item's AVTP time plus maxTransitUsec, plus redundancyOffsetUsec when redundancy is
\* enabled (modulo 2^32), tu equals the item's uncertain flag, and the item's
\* timestamp-valid flag is then cleared, so that over any sequence of tx calls the
\* transit offset is added to a given item's time at most once.
C29_TalkerTimestamp ==
    phase = "talker" =>
        /\ StampedPacket => StampedFromItem
        /\ OffsetAddedOnce

\* C29 for the sessions whose sizes were computed
C29_TalkerTimestampConfigured ==
    pvt.payloadSize > 0 => C29_TalkerTimestamp

\* a packet stamped with the time of an item that tx read before, now without tv: the
\* offset stays added once
C29_SecondReadReached ==
    /\ TxReturned("PACKET_READY") /\ pvt.payloadSize > 0 /\ last.src # <<>>
    /\ last.src[Len(last.src)].item.readIdx > 0
    /\ ~last.src[Len(last.src)].item.pAvtpTime.bTimestampValid
    /\ ~TestBit(last.buf[HIDX_AVTP_HIDE7_TV1 + 1], 1)
    /\ \E n \in 1..MaxPush :
          last.src[Len(last.src)].item.pAvtpTime.timeNsec = PushTime(n) + TransitNsec

\* a packet of a redundant talker stamped with an uncertain time that stays queued
C29_Witness ==
    /\ StampedPacket /\ Redundant /\ pvt.payloadSize > 0
    /\ last.src[Len(last.src)].item.pAvtpTime.bTimestampUncertain
    /\ TestBit(last.buf[HIDX_AVTP_HIDE7_TU1 + 1], 1)

\* a packet stamped with a time that wrapped past 2^32
C29_WrappedReached ==
    /\ StampedPacket /\ pvt.payloadSize > 0
    /\ last.src[Len(last.src)].item.pAvtpTime.timeNsec < 0
    /\ Slice(last.buf, AVTP_V0_HEADER_SIZE, 4) = <<0, 0, 3, 232>>

\* a packet with tv = 1 of a session without sizes: tx took no item
C29_StaleReached ==
    StampedPacket /\ pvt.payloadSize = 0 /\ last.src = <<>>

(***************************************************************************)
(* Properties of the reports of the statistics.                            *)
(***************************************************************************)
\* the last rx call, of a session with report_seconds > 0, displayed the statistics
Reported ==
    last.op = "rx" /\ pvt.report_seconds > 0 /\ last.reports # <<>>

\* the deadline of the last rx call moved on by report_seconds
NextDeadline == last.deadline + pvt.report_seconds * NANOSECONDS_PER_SECOND

\* the clock of the last rx call moved on by report_seconds
Reanchored == last.nowNS + pvt.report_seconds * NANOSECONDS_PER_SECOND

\* a report is displayed only when the clock has passed nextReportNS, at most once in
\* an rx call, and leaves the four counters zero; a call without a report leaves the
\* deadline alone
ReportWhenDue ==
    /\ (last.op = "rx" /\ pvt.report_seconds > 0) =>
          /\ Len(last.reports) <= 1
          /\ last.reports = <<>> => pvt.nextReportNS = last.deadline
    /\ Reported =>
          /\ last.nowNS > last.deadline
          /\ RedundancyStats(pvt) = <<0, 0, 0, 0>>

\* C30: with report_seconds > 0 a report is emitted in an rx call only when the clock
\* has passed nextReportNS; after a report all four counters are zero and nextReportNS
\* is the old deadline plus report_seconds if that is later than now, otherwise now
\* plus report_seconds, so that nextReportNS is later than now after every report and
\* at most one report is emitted per rx call.
C30_ReportLaterThanNow ==
    /\ ReportWhenDue
    /\ Reported =>
          /\ pvt.nextReportNS = IF NextDeadline > last.nowNS THEN NextDeadline
                                ELSE Reanchored
          /\ pvt.nextReportNS > last.nowNS

\* C30 with the comparison the code makes: after a report nextReportNS is the old
\* deadline plus report_seconds unless now is later than that, and then now plus
\* report_seconds, so that nextReportNS is not earlier than now after every report.
C30_Report ==
    /\ ReportWhenDue
    /\ Reported =>
          /\ pvt.nextReportNS = IF last.nowNS > NextDeadline THEN Reanchored
                                ELSE NextDeadline
          /\ pvt.nextReportNS >= last.nowNS

\* a report at the very time the moved deadline falls on: the deadline is now
C30_Witness ==
    /\ Reported /\ last.nowNS = NextDeadline
    /\ pvt.nextReportNS = last.nowNS

\* a report after the clock jumped past the moved deadline
C30_ReanchoredReached ==
    /\ Reported /\ last.nowNS > NextDeadline
    /\ pvt.nextReportNS = Reanchored

\* a second report, of counters that include a lost frame, with the deadline moved by
\* report_seconds
C30_SecondReached ==
    /\ Reported /\ last.deadline > 0 /\ last.nowNS < NextDeadline
    /\ pvt.nextReportNS = NextDeadline
    /\ last.reports[1][2] > 0

\* an rx call that updated the statistics before the deadline and reported nothing
C30_NotDueReached ==
    /\ last.op = "rx" /\ pvt.report_seconds > 0 /\ last.ret /\ Redundant
    /\ last.reports = <<>> /\ last.nowNS = last.deadline /\ last.deadline > 0
    /\ pvt.trStatsTotalFrames > 0

(***************************************************************************)
(* Properties of the sparse mode of the listener.                          *)
(***************************************************************************)
\* the session is in sparse mode
ListenerSparse == pvt.sparseMode = TS_SPARSE_MODE_ENABLED

\* after an rx call the sparse mode of the session is the sp flag of its packet
SparseAdopted ==
    last.op = "rx" => (ListenerSparse <=> TestBit(last.header[23], SP_M0_BIT))

\* the sparse mode of a listener changes only in an rx call whose packet has an sp flag
\* that is not the mode the session had
SparseStep ==
    (phase = "listener" /\ pvt'.sparseMode # pvt.sparseMode) =>
        /\ last'.op = "rx"
        /\ TestBit(last'.header[23], SP_M0_BIT) <=> ~ListenerSparse

\* C31: after every rx call that decodes a header, whether the packet is then accepted
\* or rejected, the session's sparse-mode setting equals the sp flag of that packet, and
\* the setting changes only in rx calls whose sp flag disagrees with it.
C31_SparseAdoption ==
    /\ []SparseAdopted
    /\ [][SparseStep]_vars

\* a sparse listener left sparse mode on a packet of another stream that it rejected
C31_Witness ==
    /\ last.op = "rx" /\ last.kind = "stream" /\ ~last.valid
    /\ ~TestBit(last.header[23], SP_M0_BIT)
    /\ last.wasSparse /\ ~ListenerSparse

\* a listener that was not sparse took the sparse mode of a packet it accepted
C31_EnabledReached ==
    /\ last.op = "rx" /\ last.kind = "good" /\ last.valid
    /\ TestBit(last.header[23], SP_M0_BIT)
    /\ ~last.wasSparse /\ ListenerSparse

(***************************************************************************)
(* Properties of max_data_size.                                            *)
(***************************************************************************)
\* what max_data_size returns to the session as a talker and as a listener
TalkerMaxDataSize == openavbMapAVTPAudioMaxDataSizeCB([pvt EXCEPT !.isTalker = TRUE])
ListenerMaxDataSize == openavbMapAVTPAudioMaxDataSizeCB([pvt EXCEPT !.isTalker = FALSE])

\* the *dataLen of a PACKET_READY tx call of the session
ReadyDataLen == TxDataLen(pvt, pub.itemFrameSizeBytes * pub.framesPerPacket)

\* max_data_size returned the sum for the role of the session, as 16 bits hold it
ReturnedForRole ==
    last.op = "max_data_size" =>
        last.ret = ((IF pvt.isTalker THEN pvt.payloadSizeMaxTalker
                     ELSE pvt.payloadSizeMaxListener) + TOTAL_HEADER_SIZE) % 65536

\* C32: max_data_size() returns payloadSizeMaxTalker + 24 for a talker and
\* payloadSizeMaxListener + 24 otherwise (as the 16-bit return type holds it); for
\* every configuration the listener value is at least the talker value, and every
\* *dataLen returned by a PACKET_READY tx call is at most the talker's max_data_size().
C32_MaxDataSize ==
    /\ ReturnedForRole
    /\ last.op = "max_data_size" =>
          /\ ListenerMaxDataSize >= TalkerMaxDataSize
          /\ phase = "sized_talker" => ReadyDataLen <= last.ret

\* C32 for the sessions whose largest listener frame fits 16 bits
C32_MaxDataSizeFits ==
    pvt.payloadSizeMaxListener + TOTAL_HEADER_SIZE < 65536 => C32_MaxDataSize

\* a talker with redundancy was told two payloads and the header
C32_TalkerReached ==
    /\ last.op = "max_data_size" /\ phase = "sized_talker"
    /\ pvt.temporalRedundantOffsetUsec > 0 /\ pvt.payloadSize = 36
    /\ last.ret = 96 /\ ReadyDataLen = 96 /\ ListenerMaxDataSize = 120

\* a listener whose largest frame does not fit 16 bits was told less than a talker of
\* the same configuration
C32_WrappedReached ==
    /\ last.op = "max_data_size" /\ phase = "sized"
    /\ pvt.payloadSizeMaxListener + TOTAL_HEADER_SIZE >= 65536
    /\ pvt.payloadSizeMaxTalker + TOTAL_HEADER_SIZE < 65536
    /\ last.ret < TalkerMaxDataSize

\* a talker whose largest frame does not fit 16 bits
C32_TalkerWrappedReached ==
    /\ last.op = "max_data_size" /\ phase = "sized_talker"
    /\ ReadyDataLen > last.ret

\* every *dataLen a PACKET_READY tx call returned is at most max_data_size
C32_TxDataLen ==
    (TxReturned("PACKET_READY") /\ pvt.payloadSize > 0) =>
        /\ last.lenOut = ReadyDataLen
        /\ last.lenOut <= TalkerMaxDataSize

(***************************************************************************)
(* Properties of the alignment of the redundancy queue with the stream.    *)
(***************************************************************************)
\* the frames rx_lost may append for the lost packet of slot i: silence, and the
\* redundant copy of its first payload, which the packet delivered
\* temporalRedundantOffsetPackets packets earlier carried as its second payload
FramesOfSlot(i) ==
    LET j == i - pvt.temporalRedundantOffsetPackets
    IN {Zeros(pvt.payloadSize)}
       \cup (IF j >= 1 /\ hist.slots[j].kind # "lost" THEN {hist.slots[j].second} ELSE {})

\* rx_lost locked the head of the media queue for every lost packet so far
LostHeadLocked ==
    \A i \in 1..Len(hist.slots) :
        hist.slots[i].kind = "lost" => hist.slots[i].written # <<>>

\* a packet delivered so far was rejected: rx returned false for it
SomeRejected ==
    \E i \in 1..Len(hist.slots) : hist.slots[i].kind # "lost" /\ ~hist.slots[i].ret

\* C33: for any interleaving of accepted packets, rejected packets and loss
\* notifications of an in-order talker stream, whenever rx_lost conceals slot k the
\* frame it pulls from the redundancy queue is the redundant copy of slot k's primary
\* payload or a zero frame, never a frame that belongs to a different slot.
C33_Alignment ==
    (/\ phase = "listener" /\ Alive /\ SameFormat
     /\ Redundant /\ pvt.temporalRedundantOffsetPackets >= 1) =>
        \A i \in 1..Len(hist.slots) :
            (hist.slots[i].kind = "lost" /\ hist.slots[i].written # <<>>) =>
                hist.slots[i].written[1] \in FramesOfSlot(i)

\* C33 for the streams whose lost packets all found the head of the media queue
C33_AlignmentHeadLocked ==
    LostHeadLocked => C33_Alignment

\* C33 for the streams without a rejected packet, whose lost packets all found the head
\* of the media queue
C33_AlignmentAccepted ==
    (LostHeadLocked /\ ~SomeRejected) => C33_Alignment

\* a lost packet was concealed with the copy queued for another slot
Misaligned ==
    /\ phase = "listener" /\ Alive /\ SameFormat
    /\ Redundant /\ pvt.temporalRedundantOffsetPackets >= 1
    /\ \E i \in 1..Len(hist.slots) :
           /\ hist.slots[i].kind = "lost" /\ hist.slots[i].written # <<>>
           /\ hist.slots[i].written[1] \notin FramesOfSlot(i)

\* rx returned false for a well-formed packet because the head of the media queue was
\* not available, and a later lost packet was concealed with another slot's copy
C33_HeadUnavailableReached ==
    /\ Misaligned /\ LostHeadLocked
    /\ \A i \in 1..Len(hist.slots) : hist.slots[i].kind \in {"good", "lost"}

\* rx returned false for a packet that failed validation, and a later lost packet was
\* concealed with another slot's copy
C33_InvalidReached ==
    /\ Misaligned /\ LostHeadLocked
    /\ \A i \in 1..Len(hist.slots) :
           (hist.slots[i].kind # "lost" /\ ~hist.slots[i].ret) => hist.slots[i].kind # "good"

\* a lost packet concealed with the copy of its own slot, every packet accepted
C33_AcceptedReached ==
    /\ phase = "listener" /\ Alive /\ SameFormat /\ Redundant
    /\ LostHeadLocked /\ ~SomeRejected
    /\ \E i \in 1..Len(hist.slots) :
           /\ hist.slots[i].kind = "lost" /\ hist.slots[i].written # <<>>
           /\ i > pvt.temporalRedundantOffsetPackets
           /\ hist.slots[i - pvt.temporalRedundantOffsetPackets].kind # "lost"
           /\ hist.slots[i].written[1] = hist.slots[i - pvt.temporalRedundantOffsetPackets].second

(***************************************************************************)
(* Properties of the rings rx and rx_lost work on.                         *)
(***************************************************************************)
\* Listeners of a redundant stream: with the stream's offset; with an offset below one
\* sample; with an offset that is no whole number of packets.
RingConfigs ==
    { <<Config(8000, "int", 16, 8000, 1, TS_SPARSE_MODE_DISABLED, 125),
        Config(8000, "int", 16, 8000, 1, TS_SPARSE_MODE_DISABLED, 125)>>,
      <<Config(8000, "int", 16, 8000, 1, TS_SPARSE_MODE_DISABLED, 63),
        Config(8000, "int", 16, 8000, 1, TS_SPARSE_MODE_DISABLED, 125)>>,
      <<Config(16000, "int", 16, 8000, 1, TS_SPARSE_MODE_DISABLED, 63),
        Config(16000, "int", 16, 8000, 1, TS_SPARSE_MODE_DISABLED, 125)>> }

InitRings == \E c \in RingConfigs : ListenerInit(c, MaxRx, 0, {"good"})

\* a listener of a redundant stream whose rings may not have been allocated
SpecRings == InitRings /\ [][NextRx]_vars

\* a step of rx or rx_lost that moves the head or the tail of a ring, or reads or
\* writes its storage, finds the ring valid
RingsValidStep ==
    (phase = "listener" /\ last'.op \in {"rx", "rx_lost"}) =>
        /\ temporalRedundantQueue' # temporalRedundantQueue =>
               CircularQueueIsValid(temporalRedundantQueue)
        /\ trStatsEntryTypeQueue' # trStatsEntryTypeQueue =>
               CircularQueueIsValid(trStatsEntryTypeQueue)

\* C34: for every configuration and call order (a redundancy offset that rounds to 0
\* samples, a non-integral offset, a failed allocation, rx_init without a successful
\* gen_init), rx and rx_lost never push to or pull from a redundancy queue or stats
\* ring for which CircularQueueIsValid is false.
C34_ValidRings == [][RingsValidStep]_vars

\* rx and rx_lost leave a valid ring valid
RingsStayValidStep ==
    (phase = "listener" /\ last'.op \in {"rx", "rx_lost"}) =>
        /\ CircularQueueIsValid(temporalRedundantQueue) =>
               CircularQueueIsValid(temporalRedundantQueue')
        /\ CircularQueueIsValid(trStatsEntryTypeQueue) =>
               CircularQueueIsValid(trStatsEntryTypeQueue')

\* C34 for the sessions whose gen_init and rx_init allocated both rings
C34_AllocatedRings ==
    [][(CircularQueueIsValid(temporalRedundantQueue)
          /\ CircularQueueIsValid(trStatsEntryTypeQueue)) =>
       (RingsValidStep /\ RingsStayValidStep)]_vars

\* rx_lost pulled a frame from a redundancy queue gen_init had not allocated because
\* the offset is below one sample
C34_ZeroSamplesReached ==
    /\ last.op = "rx_lost" /\ temporalRedundantQueue.fault
    /\ pvt.temporalRedundantOffsetSamples = 0 /\ temporalRedundantQueue.queueSize = 0
    /\ CircularQueueIsValid(trStatsEntryTypeQueue)

\* rx pushed a second payload to a redundancy queue gen_init had refused to allocate
C34_RefusedReached ==
    /\ last.op = "rx" /\ temporalRedundantQueue.fault
    /\ pvt.temporalRedundantOffsetSamples % pub.framesPerPacket # 0
    /\ CircularQueueIsValid(trStatsEntryTypeQueue)

\* rx pushed a second payload to a redundancy queue whose allocation had failed
C34_FailedAllocationReached ==
    /\ last.op = "rx" /\ temporalRedundantQueue.fault
    /\ temporalRedundantQueue.queueSize > 0 /\ ~temporalRedundantQueue.storage
    /\ CircularQueueIsValid(trStatsEntryTypeQueue)

\* rx pushed to and pulled from two valid rings
C34_AllocatedReached ==
    /\ last.op = "rx" /\ last.ret /\ Redundant /\ Alive
    /\ CircularQueueIsValid(temporalRedundantQueue)
    /\ CircularQueueIsValid(trStatsEntryTypeQueue)

(***************************************************************************)
(* Properties of the two rings taken together.                             *)
(***************************************************************************)
\* both rings of a listener with redundancy are allocated and intact
RingsAllocated ==
    /\ phase = "listener" /\ Alive /\ Redundant
    /\ CircularQueueIsValid(temporalRedundantQueue)
    /\ CircularQueueIsValid(trStatsEntryTypeQueue)

\* the stats ring holds temporalRedundantOffsetPackets entries and the redundancy queue
\* as many frames
Lockstep ==
    /\ CircularQueueBytesQueued(trStatsEntryTypeQueue) = pvt.temporalRedundantOffsetPackets
    /\ CircularQueueBytesQueued(temporalRedundantQueue) =
           pvt.temporalRedundantOffsetPackets * pvt.temporalRedundantQueueFrameSize

\* C35: with redundancy enabled and both rings allocated, after every completed rx or
\* rx_lost call the stats ring holds exactly temporalRedundantOffsetPackets entries and
\* the redundancy queue exactly temporalRedundantOffsetPackets *
\* temporalRedundantQueueFrameSize bytes, so that the i-th stats entry describes the
\* i-th queued frame.
C35_RingLockstep ==
    (RingsAllocated /\ last.op \in {"rx", "rx_lost"}) => Lockstep

\* the bytes a ring holds, oldest first
RingBytes(pQueue) ==
    PullBufferFromCircularQueue(pQueue, TRUE, CircularQueueBytesQueued(pQueue)).data

\* the packets of the stream for which rx or rx_lost pushed a frame, in order
RECURSIVE Stored(_)
Stored(slots) ==
    IF slots = <<>> THEN <<>>
    ELSE Let(Stored(SubSeq(slots, 1, Len(slots) - 1)), LAMBDA before :
           LET s == slots[Len(slots)]
           IN IF (s.kind = "lost" /\ s.written # <<>>) \/ (s.kind # "lost" /\ s.ret)
              THEN Append(before, s) ELSE before)

\* the i-th entry of the stats ring and the i-th frame of the redundancy queue are those
\* pushed for the same packet: unspec with a frame of zeros by gen_init, rx_init and
\* rx_lost, the format of the stream with the second payload, padded with zeros, by rx
EntriesDescribeFrames ==
    Let(<<RingBytes(trStatsEntryTypeQueue), RingBytes(temporalRedundantQueue),
          Stored(hist.slots)>>, LAMBDA a :
        \A i \in 1..pvt.temporalRedundantOffsetPackets :
            LET k == Len(a[3]) - pvt.temporalRedundantOffsetPackets + i
                frame == Slice(a[2], (i - 1) * pvt.temporalRedundantQueueFrameSize,
                               pvt.temporalRedundantQueueFrameSize)
            IN IF k >= 1 /\ a[3][k].kind # "lost"
               THEN /\ a[1][i] = pvt.aaf_format
                    /\ frame = a[3][k].second
                                 \o Zeros(pvt.temporalRedundantQueueFrameSize - pvt.payloadSize)
               ELSE /\ a[1][i] = AAF_FORMAT_UNSPEC
                    /\ frame = Zeros(pvt.temporalRedundantQueueFrameSize))

\* no packet so far carried a payload that is no whole number of samples
NoRaggedPayload == \A i \in 1..Len(hist.slots) : hist.slots[i].kind # "ragged"

\* C35 for the streams whose payloads are whole samples
C35_RingLockstepWholeSamples ==
    (RingsAllocated /\ last.op \in {"rx", "rx_lost"} /\ NoRaggedPayload) =>
        /\ Lockstep
        /\ SameFormat => EntriesDescribeFrames

\* rx stored a frame after rx_lost had: the queue of two frames holds the zeros pushed
\* for the lost packet and the second payload of the packet received
C35_Witness ==
    /\ RingsAllocated /\ last.op = "rx" /\ last.ret /\ SameFormat
    /\ pvt.temporalRedundantOffsetPackets = 2
    /\ Len(hist.slots) >= 2
    /\ hist.slots[Len(hist.slots) - 1].kind = "lost"
    /\ hist.slots[Len(hist.slots) - 1].written # <<>>
    /\ Lockstep /\ EntriesDescribeFrames

\* rx saved a payload that is no whole number of samples, longer than the frame pulled
C35_RaggedReached ==
    /\ RingsAllocated /\ last.op = "rx" /\ last.ret
    /\ last.payloadLen > pvt.temporalRedundantQueueFrameSize
    /\ CircularQueueBytesQueued(temporalRedundantQueue) >
           pvt.temporalRedundantOffsetPackets * pvt.temporalRedundantQueueFrameSize

(***************************************************************************)
(* Properties of the statistics counters.                                  *)
(***************************************************************************)
\* every lost frame is counted as needed and available or as needed and not available,
\* and as one of the frames in all
StatsConsistent ==
    /\ pvt.trStatsLostFrames = pvt.trStatsNeededAvailable + pvt.trStatsNeededNotAvailable
    /\ pvt.trStatsTotalFrames >= pvt.trStatsLostFrames

\* a step that takes one of the four counters down leaves all four zero
ResetTogether ==
    (\E i \in 1..4 : RedundancyStats(pvt')[i] < RedundancyStats(pvt)[i]) =>
        RedundancyStats(pvt') = <<0, 0, 0, 0>>

C36_CountedReached ==
    /\ phase = "listener" /\ last.op = "rx_lost" /\ pvt.report_seconds = 0
    /\ pvt.trStatsNeededAvailable > 0 /\ pvt.trStatsNeededNotAvailable > 0
    /\ pvt.trStatsTotalFrames > pvt.trStatsLostFrames

(***************************************************************************)
(* Properties of the end of the frame-gathering loop.                      *)
(***************************************************************************)
\* an item whose dataLen tells of n bytes and whose pPubData is NULL
NoBufferItem(n, t) == [pPubData |-> <<>>, dataLen |-> n, readIdx |-> 0, pAvtpTime |-> t]

\* the interface module queues an item of one packet that has no data buffer
IntfPushNoBuffer ==
    /\ phase = "talker"
    /\ hist.nPush < MaxPush
    /\ Len(mediaQ.items) < MaxItems
    /\ pvt.payloadSize > 0
    /\ mediaQ' = [mediaQ EXCEPT !.items =
           @ \o <<NoBufferItem(pvt.payloadSize,
                               AvtpTime(PushTime(hist.nPush + 1), TRUE, FALSE))>>]
    /\ hist' = [hist EXCEPT !.nPush = @ + 1]
    /\ last' = [op |-> "push"]
    /\ UNCHANGED <<pub, pvt, temporalRedundantQueue, trStatsEntryTypeQueue, phase>>

\* Talker sessions whose media queue may hold items without a buffer: plain, and
\* redundant with an offset of one packet
GatherConfigs ==
    { Config(8000, "int", 16, 8000, 1, TS_SPARSE_MODE_DISABLED, 0),
      Config(8000, "int", 16, 8000, 1, TS_SPARSE_MODE_DISABLED, 125) }

InitGather == \E c \in GatherConfigs : SessionInit(c)

NextGather == GenInit \/ TxInit \/ IntfPush \/ IntfPushNoBuffer \/ TxCall

SpecGather == InitGather /\ [][NextGather]_vars

\* the media-queue calls of the last tx call that took an item or found none
Passes == Len(SelectSeq(last.ops, LAMBDA o : o \in {"TailLock", "TailLockNull"}))

\* C37: every tx call terminates: once IsAvailableBytes has reported enough data, the
\* frame-gathering loop ends after finitely many passes for every media-queue state,
\* including items with dataLen 0, items with no data buffer, and TailLock returning
\* no item.
C37_TxTerminates ==
    (phase = "talker" /\ last.op = "tx") =>
        /\ last.ret \in {"PACKET_READY", "PACKET_NOT_READY"}
        /\ Passes <= MaxItems

\* a tx call that gathered a payload after it had pulled an item with dataLen 0
C37_SkippedReached ==
    /\ phase = "talker" /\ last.op = "tx" /\ last.ret = "PACKET_READY"
    /\ Passes = 2 /\ last.src[1].item.dataLen = 0

\* a tx call that pulled an item without a buffer and then found the queue empty
C37_HangReached ==
    /\ phase = "talker" /\ last.op = "tx" /\ last.ret = "HANG"
    /\ last.src # <<>> /\ last.src[1].item.pPubData = <<>> /\ last.src[1].item.dataLen > 0
    /\ last.ops[Len(last.ops) - 1] = "TailLockNull"

(***************************************************************************)
(* Two listener sessions of one process.  In SpecSessions every variable   *)
(* of a session is a pair, indexed by the session; phase[i] is where       *)
(* session i is, and hist holds what the sessions share: s_audioBuffer,    *)
(* the function-static scratch buffer of rx_lost (its bytes up to the      *)
(* longest frame pulled into it), and for each session the position of     *)
(* its rx_lost call (pc).  The callbacks of one session are serialized;    *)
(* those of different sessions interleave at the accesses to the buffer:   *)
(* rx_lost pulls the frame into it, then converts out of it.               *)
(***************************************************************************)
MaxSessionRx == 3   \* packets of its stream each of the two sessions is told of

Sessions == 1..2

\* 16-bit listeners with redundancy and items of two packets: the first of a 24-bit
\* stream, the second of a 32-bit stream
SessionConfigs ==
    << <<Config(8000, "int", 16, 8000, 2, TS_SPARSE_MODE_DISABLED, 125),
         Config(8000, "int", 24, 8000, 1, TS_SPARSE_MODE_DISABLED, 125)>>,
       <<Config(8000, "int", 16, 8000, 2, TS_SPARSE_MODE_DISABLED, 125),
         Config(8000, "int", 32, 8000, 1, TS_SPARSE_MODE_DISABLED, 125)>> >>

InitSessions ==
    /\ pub = [i \in Sessions |->
                PubMapInfo(SessionConfigs[i][1].audioRate, SessionConfigs[i][1].audioType,
                           SessionConfigs[i][1].audioBitDepth,
                           SessionConfigs[i][1].audioChannels)] \o <<>>
    /\ pvt = [i \in Sessions |-> CfgCB(Initialize(2), SessionConfigs[i][1])] \o <<>>
    /\ temporalRedundantQueue = <<FreeCircularQueue, FreeCircularQueue>>
    /\ trStatsEntryTypeQueue = <<FreeCircularQueue, FreeCircularQueue>>
    /\ mediaQ = <<[items |-> <<>>, head |-> <<>>], [items |-> <<>>, head |-> <<>>]>>
    /\ phase = <<"created", "created">>
    /\ last = [op |-> "init"]
    /\ hist = [peer |-> <<SessionConfigs[1][2], SessionConfigs[2][2]>>,
               pos |-> <<0, 0>>, pc |-> <<[at |-> "idle"], [at |-> "idle"]>>,
               s_audioBuffer |-> Zeros(4), owner |-> 0]

SessionGenInit(i) ==
    /\ phase[i] = "created"
    /\ \E r \in {openavbMapAVTPAudioGenInitCB(pub[i], pvt[i], temporalRedundantQueue[i], TRUE)} :
         /\ pub' = [pub EXCEPT ![i] = r.pub]
         /\ pvt' = [pvt EXCEPT ![i] = r.pvt]
         /\ temporalRedundantQueue' = [temporalRedundantQueue EXCEPT ![i] = r.queue]
    /\ phase' = [phase EXCEPT ![i] = "gen"]
    /\ last' = [op |-> "gen_init", session |-> i]
    /\ UNCHANGED <<trStatsEntryTypeQueue, mediaQ, hist>>

SessionRxInit(i) ==
    /\ phase[i] = "gen"
    /\ \E r \in {openavbMapAVTPAudioRxInitCB(pvt[i], trStatsEntryTypeQueue[i], TRUE)} :
         /\ pvt' = [pvt EXCEPT ![i] = r.pvt]
         /\ trStatsEntryTypeQueue' = [trStatsEntryTypeQueue EXCEPT ![i] = r.stats]
    /\ phase' = [phase EXCEPT ![i] = "listener"]
    /\ last' = [op |-> "rx_init", session |-> i]
    /\ UNCHANGED <<pub, temporalRedundantQueue, mediaQ, hist>>

\* session i is given the next packet of its stream
SessionRx(i) ==
    /\ phase[i] = "listener" /\ hist.pc[i].at = "idle"
    /\ hist.pos[i] < MaxSessionRx
    /\ \E p \in {PeerRun(PeerSession(hist.peer[i]), hist.pos[i] + 1)} :
       \E r \in {openavbMapAVTPAudioRxCB(pub[i], pvt[i], temporalRedundantQueue[i],
                                         trStatsEntryTypeQueue[i], mediaQ[i],
                                         p.buf, p.dataLen, 0)} :
         /\ pvt' = [pvt EXCEPT ![i] = r.pvt]
         /\ temporalRedundantQueue' = [temporalRedundantQueue EXCEPT ![i] = r.queue]
         /\ trStatsEntryTypeQueue' = [trStatsEntryTypeQueue EXCEPT ![i] = r.stats]
         /\ mediaQ' = [mediaQ EXCEPT ![i] = r.q]
         /\ last' = [op |-> "rx", session |-> i, ret |-> r.ret]
    /\ hist' = [hist EXCEPT !.pos[i] = @ + 1]
    /\ UNCHANGED <<pub, phase>>

\* the state of an rx_lost call of session i as it starts
SessionLostStart(i) ==
    [pvt |-> pvt[i], queue |-> temporalRedundantQueue[i], stats |-> trStatsEntryTypeQueue[i],
     q |-> mediaQ[i], written |-> <<>>, ops |-> <<>>, below |-> TRUE, locked |-> 0,
     overflow |-> FALSE]

\* session i takes on what its rx_lost call leaves
SessionLostDone(i, r) ==
    /\ pvt' = [pvt EXCEPT ![i] = r.pvt]
    /\ temporalRedundantQueue' = [temporalRedundantQueue EXCEPT ![i] = r.queue]
    /\ trStatsEntryTypeQueue' = [trStatsEntryTypeQueue EXCEPT ![i] = r.stats]
    /\ mediaQ' = [mediaQ EXCEPT ![i] = r.q]

\* rx_lost(1) of session i up to the pull of the frame: a call that does not convert
\* runs to its end; one that converts has pulled the frame into s_audioBuffer
SessionLostPull(i) ==
    /\ phase[i] = "listener" /\ hist.pc[i].at = "idle"
    /\ hist.pos[i] < MaxSessionRx
    /\ LostActive(pvt[i])
    /\ \E head \in {openavbMediaQHeadLock(mediaQ[i], pub[i].itemSize)},
          f \in {PullBufferFromCircularQueue(trStatsEntryTypeQueue[i], TRUE, 1)} :
         IF head = <<>>
         THEN /\ last' = [op |-> "rx_lost", session |-> i, converted |-> FALSE,
                          written |-> <<>>]
              /\ hist' = [hist EXCEPT !.pos[i] = @ + 1]
              /\ UNCHANGED <<pvt, temporalRedundantQueue, trStatsEntryTypeQueue, mediaQ>>
         ELSE IF f.data[1] # AAF_FORMAT_UNSPEC /\ LostConversion(pvt[i], f.data[1])
         THEN \E p \in {PullBufferFromCircularQueue(temporalRedundantQueue[i], TRUE,
                           pvt[i].temporalRedundantQueueFrameSize)} :
                /\ hist' = [hist EXCEPT
                      !.s_audioBuffer = WriteAt(@, 0, p.data),
                      !.owner = i,
                      !.pc[i] = [at |-> "convert", item |-> head[1], f |-> f, q |-> p.q,
                                 frame |-> p.data]]
                /\ last' = [op |-> "rx_lost_pull", session |-> i]
                /\ UNCHANGED <<pvt, temporalRedundantQueue, trStatsEntryTypeQueue, mediaQ>>
         ELSE \E r \in {LostItem(pub[i], SessionLostStart(i), head[1], f)} :
                /\ SessionLostDone(i, r)
                /\ last' = [op |-> "rx_lost", session |-> i, converted |-> FALSE,
                            written |-> r.written[1][1]]
                /\ hist' = [hist EXCEPT !.pos[i] = @ + 1]
    /\ UNCHANGED <<pub, phase>>

\* the samples rx_lost of session i converts out of buf, a frame with the format byte
\* dataFormat
SessionConverted(i, buf, dataFormat) ==
    ConvertSamples(buf, 0,
                   (6 - dataFormat) * pub[i].audioChannels * pub[i].framesPerPacket,
                   6 - dataFormat, 6 - pvt[i].aaf_format)

\* rx_lost(1) of session i from the conversion on: the samples are read out of
\* s_audioBuffer as it is by now
SessionLostConvert(i) ==
    /\ phase[i] = "listener" /\ hist.pc[i].at = "convert"
    /\ \E data \in {SessionConverted(i, hist.s_audioBuffer, hist.pc[i].f.data[1])} :
       \E r \in {LostItemRecovered(pub[i], SessionLostStart(i), hist.pc[i].item, hist.pc[i].f,
                    [q |-> hist.pc[i].q, data |-> data, overflow |-> FALSE])} :
         /\ SessionLostDone(i, r)
         /\ last' = [op |-> "rx_lost", session |-> i, converted |-> TRUE,
                     written |-> data,
                     own |-> SessionConverted(i, hist.pc[i].frame, hist.pc[i].f.data[1]),
                     serial |-> hist.owner = i]
    /\ hist' = [hist EXCEPT !.pos[i] = @ + 1, !.pc[i] = [at |-> "idle"]]
    /\ UNCHANGED <<pub, phase>>

NextSessions ==
    \E i \in Sessions :
        \/ SessionGenInit(i)
        \/ SessionRxInit(i)
        \/ SessionRx(i)
        \/ SessionLostPull(i)
        \/ SessionLostConvert(i)

SpecSessions == InitSessions /\ [][NextSessions]_vars

(***************************************************************************)
(* Properties of sessions that run side by side.                           *)
(***************************************************************************)
\* an rx_lost call that converted its frame has ended
LostConverted == last.op = "rx_lost" /\ last.converted

\* C38: when the loss callbacks of two different listener sessions run concurrently
\* (each session's own callbacks serialized), the bytes each rx_lost writes into its
\* session's media-queue item depend only on that session's own state: they are the
\* samples of the frame the session pulled from its own redundancy queue.
C38_SessionIsolation ==
    LostConverted => last.written = last.own

\* C38 for the calls during which no other session pulled a frame
C38_SessionIsolationSerial ==
    (LostConverted /\ last.serial) => last.written = last.own

\* rx_lost of the first session wrote the samples of the second session's stream
C38_ForeignReached ==
    /\ LostConverted /\ last.session = 1 /\ ~last.serial
    /\ last.written # last.own
    /\ last.written = SubSeq(hist.s_audioBuffer, 1, 2)

\* rx_lost of a session wrote the samples of its own stream while the other session
\* was between its pull and its conversion
C38_SerialReached ==
    /\ LostConverted /\ last.serial /\ last.written = last.own
    /\ \E j \in Sessions : j # last.session /\ hist.pc[j].at = "convert"
====
